---------------------------- MODULE Spec2Model ----------------------------
(***************************************************************************)
(* Timeline and playback engine of the editor (src/App.tsx).               *)
(*                                                                         *)
(* Times are fixed-point integers: one second is UnitsPerSecond units and  *)
(* one quantum of roundTime (1e-4 s) is SubQuantum units, so that source   *)
(* durations that are not multiples of 1e-4 s are representable.  Pointer  *)
(* positions are integer pixels measured from the left edge of the clip    *)
(* area (clientX - rect.left - HEADER_WIDTH).  Clip ids are tuples of      *)
(* Date.now() readings: <<t>> for Date.now().toString() and Append(id, t)  *)
(* for id + '_split_' + Date.now().                                        *)
(***************************************************************************)
EXTENDS Integers, Sequences, FiniteSets, TLC

VARIABLES
    videoPool,              \* useState<VideoClip[]>            (line 147)
    videoTracks,            \* useState<VideoTrack[]>           (line 148)
    timelineAudioTracks,    \* useState<VideoTrack[]>           (line 153)
    videoHistory,           \* useState<string[]>               (line 157)
    videoHistoryIndex,      \* useState(-1)                     (line 158)
    currentVideoTime,       \* useState(0)                      (line 160)
    selectedClipId,         \* useState<string | null>          (line 162)
    videoEditTool,          \* 'move' | 'razor'                 (line 163)
    isMagnetEnabled,        \* useState(true)                   (line 164)
    timelineScale,          \* useState(20), pixels per second  (line 166)
    draggingClipId,         \* useState<string | null>          (line 168)
    isScrubbing,            \* useState(false)                  (line 169)
    dragStartX,             \* useState(0)                      (line 170)
    dragOriginalStartTime,  \* useState(0)                      (line 171)
    isVideoPlaying,         \* useState(false)                  (line 161)
    isRecorderMode,         \* useState(false)                  (line 179)
    recordingState,         \* 'idle' | 'capturing' | 'recording' | 'review' (line 180)
    mediaRecorder,          \* mediaRecorderRef.current: its state, its queued stop event
    gallery,                \* useState<GalleryImage[]>([])     (line 138)
    audioStudioTracks,      \* useState<AudioTrack[]>([])       (line 194)
    isAudioWorkspace,       \* activeWorkspace === Workspace.AUDIO (line 136)
    audioGraph,             \* audioGraphRef.current            (line 196)
    audioStudioRefs,        \* audioStudioRefs.current          (line 195)
    aiPendingChanges,       \* useState<AiChangeItem[]>([])     (line 174)
    aiRequest,              \* handleAiVideoAnalysis in flight, with the clip its closure holds
    now,                    \* the reading Date.now() gives the next handler
    lastOp,                 \* history variable: the handler that ran last
    preMutation,            \* history variable: the tracks before the last mutation
    undoRun,                \* history variable: the current run of undos and redos
    pushLog                 \* history variable: the snapshots pushed while no push
                            \* discarded redo entries, and counts of pushes and undo runs

vars == << videoPool, videoTracks, timelineAudioTracks, videoHistory,
           videoHistoryIndex, currentVideoTime, selectedClipId, videoEditTool,
           isMagnetEnabled, timelineScale, draggingClipId, isScrubbing,
           dragStartX, dragOriginalStartTime, isVideoPlaying, isRecorderMode,
           recordingState, mediaRecorder, gallery, audioStudioTracks,
           isAudioWorkspace, audioGraph, audioStudioRefs, aiPendingChanges, aiRequest,
           now, lastOp, preMutation, undoRun, pushLog >>

-----------------------------------------------------------------------------
(* Bounds of the model *)

\* Units per roundTime quantum (the sub-quantum resolution of the model).
SubQuantum == 10
\* Edits (history pushes after the mount) explored by the editing specifications.
MaxEdits == 2
\* The greatest denominator of the arguments given to the fade curves.
CurveDen == 8
\* Edits explored by the fade specification.
FadeEdits == 1
\* Edits explored by the undo specification.
UndoEdits == 3
\* History pushes explored by the history-cap specification.
MaxPushes == 25
\* Pushes made after an undo (they discard the redo entries) explored by it.
MaxBranches == 1
\* Runs of undos and redos explored by it.
MaxRuns == 1

(* Program constants *)

\* roundTime: Math.round(val * 10000) / 10000
TimeResolution == 10000
\* pushVideoHistory: if (newHistory.length > 20) newHistory.shift()
HistoryCap == 20
\* useState(20): the initial timeline scale
DefaultScale == 20
\* snapThreshold = 15 / timelineScale
SnapPixels == 15

UnitsPerSecond == SubQuantum * TimeResolution
\* 0.1 s, the minimum fragment length of a split
MinFragment == UnitsPerSecond \div 10

NoId == << >>
NoTracks == [videoTracks |-> << >>, timelineAudioTracks |-> << >>]
\* undoRun follows the first run of undos and redos of a behaviour: the
\* tracks it started from, its undos and the redos that followed them.
NoRun == [base |-> NoTracks, undos |-> 0, redos |-> 0, over |-> FALSE]
RunOver == [base |-> NoTracks, undos |-> 0, redos |-> 0, over |-> TRUE]

-----------------------------------------------------------------------------
(* Time utilities *)

Abs(x) == IF x < 0 THEN 0 - x ELSE x
Max2(a, b) == IF a >= b THEN a ELSE b

\* num / den seconds-units rounded to the nearest quantum, halves rounded up
\* as Math.round does.
RoundRatio(num, den) ==
    ((2 * num + SubQuantum * den) \div (2 * SubQuantum * den)) * SubQuantum

roundTime(val) == RoundRatio(val, 1)


-----------------------------------------------------------------------------
(* Timeline model *)

\* The initial video tracks v1, v2, v3 and the timeline audio track a1.
InitVideoTracks ==
    << [id |-> "v1", name |-> "video 1", clips |-> << >>, isMuted |-> FALSE, isLocked |-> FALSE],
       [id |-> "v2", name |-> "video 2", clips |-> << >>, isMuted |-> FALSE, isLocked |-> FALSE],
       [id |-> "v3", name |-> "text/FX", clips |-> << >>, isMuted |-> FALSE, isLocked |-> FALSE] >>

InitTimelineAudioTracks ==
    << [id |-> "a1", name |-> "audio 1", clips |-> << >>, isMuted |-> FALSE, isLocked |-> FALSE] >>

\* [...videoTracks, ...timelineAudioTracks].flatMap(t => t.clips)
RECURSIVE FlatClips(_)
FlatClips(tracks) ==
    IF tracks = << >> THEN << >>
    ELSE Head(tracks).clips \o FlatClips(Tail(tracks))

AllClips(vt, at) == FlatClips(vt \o at)

Range(seq) == {seq[i] : i \in 1..Len(seq)}
ClipIds(vt, at) == {c.id : c \in Range(AllClips(vt, at))}

\* Array.prototype.findIndex on ids: 0 when no element has the id, else the
\* first index that has it.
IndexOfId(seq, id) ==
    IF \E i \in 1..Len(seq) : seq[i].id = id
    THEN CHOOSE i \in 1..Len(seq) : seq[i].id = id /\ \A j \in 1..(i - 1) : seq[j].id # id
    ELSE 0

\* maxTime: the derived extent of the timeline.
RECURSIVE MaxEnd(_, _)
MaxEnd(clips, floor) ==
    IF clips = << >> THEN floor
    ELSE MaxEnd(Tail(clips), Max2(floor, Head(clips).startTime + Head(clips).duration))

\* The extent without the trailing pad.
maxTimeUnpadded ==
    LET allClips == AllClips(videoTracks, timelineAudioTracks)
    IN  IF Len(allClips) = 0 THEN 60 * UnitsPerSecond
        ELSE MaxEnd(allClips, 60 * UnitsPerSecond)

maxTime ==
    LET allClips == AllClips(videoTracks, timelineAudioTracks)
    IN  IF Len(allClips) = 0 THEN 60 * UnitsPerSecond
        ELSE MaxEnd(allClips, 60 * UnitsPerSecond) + 2 * UnitsPerSecond

-----------------------------------------------------------------------------
(* Edit history *)

\* JSON.stringify({ videoTracks, timelineAudioTracks }): the serialised
\* snapshot, a value distinct from the tracks it was taken from.
JSONstringify(vt, at) == [json |-> [videoTracks |-> vt, timelineAudioTracks |-> at]]

\* JSON.parse of a snapshot string.
JSONparse(str) == str.json

Tracks == [videoTracks |-> videoTracks, timelineAudioTracks |-> timelineAudioTracks]

\* A push that never drops the oldest snapshot.
HistoryAfterPushUncapped ==
    Append(SubSeq(videoHistory, 1, videoHistoryIndex + 1),
           JSONstringify(videoTracks, timelineAudioTracks))

\* A push that appends after the whole history, redo entries included.
HistoryAfterPushKeepsRedo ==
    LET newHistory == Append(videoHistory, JSONstringify(videoTracks, timelineAudioTracks))
    IN  IF Len(newHistory) > HistoryCap THEN Tail(newHistory) ELSE newHistory

\* pushVideoHistory: the history it stores.
HistoryAfterPush ==
    LET state      == JSONstringify(videoTracks, timelineAudioTracks)
        newHistory == Append(SubSeq(videoHistory, 1, videoHistoryIndex + 1), state)
    IN  IF Len(newHistory) > HistoryCap THEN Tail(newHistory) ELSE newHistory

\* pushVideoHistory: the cursor it stores.
IndexAfterPush == Len(HistoryAfterPush) - 1

pushVideoHistory ==
    /\ videoHistory' = HistoryAfterPush
    /\ videoHistoryIndex' = IndexAfterPush
    /\ LET atTail == videoHistoryIndex + 1 = Len(videoHistory)
           state  == JSONstringify(videoTracks, timelineAudioTracks)
       IN  pushLog' = [pushLog EXCEPT !.linear = @ /\ atTail,
                                      !.log = IF pushLog.linear /\ atTail
                                              THEN Append(@, state) ELSE << >>,
                                      !.count = @ + 1,
                                      !.branches = IF atTail THEN @ ELSE @ + 1]

noPush == UNCHANGED << videoHistory, videoHistoryIndex, pushLog >>

\* The history variables after a handler: its name and the values it worked
\* on, the pair of track collections a mutation started from, and the run
\* of undos and redos in progress.
Note(name, arg, pre, run) ==
    /\ lastOp' = [name |-> name, arg |-> arg]
    /\ preMutation' = pre
    /\ undoRun' = run

NoArg == << >>

\* No analysis is in flight.
NoRequest == [idle |-> TRUE]

\* audioGraphRef.current === null
NoGraph == [closed |-> TRUE]

\* new Map()
EmptyMap == [k \in {} |-> FALSE]

\* mediaRecorderRef.current === null
NoRecorder == [state |-> "none", stopQueued |-> FALSE]

\* A handler other than undo and redo ends the run in progress.
EndRun == IF undoRun = NoRun THEN NoRun ELSE RunOver

\* The screen recorder: the mode flag, the session state and the MediaRecorder
\* (its state attribute and whether its stop event is queued).
recVars == << isRecorderMode, recordingState, mediaRecorder >>
\* The audio studio: whether its workspace is shown, the audio graph and the
\* audio elements kept by track id.
studioVars == << isAudioWorkspace, audioGraph, audioStudioRefs >>
\* The image gallery and the tracks of the audio studio.
libVars == << gallery, audioStudioTracks, isAudioWorkspace, audioGraph, audioStudioRefs,
             aiPendingChanges, aiRequest >>
\* The colour assistant: the staged changes and the analysis in flight.
aiVars == << aiPendingChanges, aiRequest >>
uiVars == << currentVideoTime, isVideoPlaying, videoEditTool, isMagnetEnabled, timelineScale,
             isRecorderMode, recordingState, mediaRecorder, gallery, audioStudioTracks,
             isAudioWorkspace, audioGraph, audioStudioRefs, aiPendingChanges, aiRequest >>
dragVars == << draggingClipId, isScrubbing, dragStartX, dragOriginalStartTime >>

\* The mount effects have run (handlers are attached after the first commit).
Mounted == videoHistoryIndex >= 0

Init ==
    /\ videoPool = << >>
    /\ videoTracks = InitVideoTracks
    /\ timelineAudioTracks = InitTimelineAudioTracks
    /\ videoHistory = << >>
    /\ videoHistoryIndex = -1
    /\ currentVideoTime = 0
    /\ selectedClipId = NoId
    /\ videoEditTool = "move"
    /\ isMagnetEnabled = TRUE
    /\ timelineScale = DefaultScale
    /\ draggingClipId = NoId
    /\ isScrubbing = FALSE
    /\ dragStartX = 0
    /\ dragOriginalStartTime = 0
    /\ isVideoPlaying = FALSE
    /\ isRecorderMode = FALSE
    /\ recordingState = "idle"
    /\ mediaRecorder = NoRecorder
    /\ gallery = << >>
    /\ audioStudioTracks = << >>
    /\ isAudioWorkspace = FALSE
    /\ audioGraph = NoGraph
    /\ audioStudioRefs = EmptyMap
    /\ aiPendingChanges = << >>
    /\ aiRequest = NoRequest
    /\ now = 1
    /\ lastOp = [name |-> "init", arg |-> NoArg]
    /\ preMutation = NoTracks
    /\ undoRun = NoRun
    /\ pushLog = [linear |-> TRUE, log |-> << >>, count |-> 0, branches |-> 0, runs |-> 0]

\* useEffect(() => { if (videoHistory.length === 0) pushVideoHistory(); }, [])
MountEffect ==
    /\ ~Mounted
    /\ Len(videoHistory) = 0
    /\ pushVideoHistory
    /\ Note("mount", NoArg, NoTracks, EndRun)
    /\ UNCHANGED << videoPool, videoTracks, timelineAudioTracks, selectedClipId, now >>
    /\ UNCHANGED uiVars
    /\ UNCHANGED dragVars

\* handleVideoUndo
handleVideoUndo ==
    /\ Mounted
    /\ LET currentIndex == videoHistoryIndex
       IN  IF currentIndex > 0
           THEN LET newIndex == currentIndex - 1
                    state    == JSONparse(videoHistory[newIndex + 1])
                IN  /\ videoHistoryIndex' = newIndex
                    /\ videoTracks' = state.videoTracks
                    /\ timelineAudioTracks' = state.timelineAudioTracks
                    /\ pushLog' = [pushLog EXCEPT !.runs = IF lastOp.name \in {"undo", "redo"}
                                                           THEN @ ELSE @ + 1]
                    /\ Note("undo", [after |-> lastOp.name], preMutation,
                            IF undoRun.over \/ undoRun.redos > 0 THEN RunOver
                            ELSE [base  |-> IF undoRun.undos = 0 THEN Tracks ELSE undoRun.base,
                                  undos |-> undoRun.undos + 1, redos |-> 0, over |-> FALSE])
           ELSE /\ UNCHANGED << videoHistoryIndex, videoTracks, timelineAudioTracks, pushLog >>
                /\ Note("undo-noop", NoArg, NoTracks, EndRun)
    /\ UNCHANGED << videoPool, videoHistory, selectedClipId, now >>
    /\ UNCHANGED uiVars
    /\ UNCHANGED dragVars

\* A redo that moves the cursor and restores nothing.
handleVideoRedoCursorOnly ==
    /\ Mounted
    /\ IF videoHistoryIndex < Len(videoHistory) - 1
       THEN /\ videoHistoryIndex' = videoHistoryIndex + 1
            /\ Note("redo", [after |-> lastOp.name], NoTracks, EndRun)
       ELSE /\ UNCHANGED videoHistoryIndex
            /\ Note("redo-noop", [after |-> lastOp.name], NoTracks, EndRun)
    /\ UNCHANGED << videoPool, videoTracks, timelineAudioTracks, videoHistory, pushLog,
                    selectedClipId, now >>
    /\ UNCHANGED uiVars
    /\ UNCHANGED dragVars

\* handleVideoRedo
handleVideoRedo ==
    /\ Mounted
    /\ LET currentIndex == videoHistoryIndex
           history      == videoHistory
       IN  IF currentIndex < Len(history) - 1
           THEN LET newIndex == currentIndex + 1
                    state    == JSONparse(history[newIndex + 1])
                IN  /\ videoHistoryIndex' = newIndex
                    /\ videoTracks' = state.videoTracks
                    /\ timelineAudioTracks' = state.timelineAudioTracks
                    /\ Note("redo", [after |-> lastOp.name], NoTracks,
                            IF undoRun.undos > undoRun.redos
                              THEN [undoRun EXCEPT !.redos = @ + 1]
                              ELSE EndRun)
           ELSE /\ UNCHANGED << videoHistoryIndex, videoTracks, timelineAudioTracks >>
                /\ Note("redo-noop", [after |-> lastOp.name], NoTracks, EndRun)
    /\ UNCHANGED << videoPool, videoHistory, pushLog, selectedClipId, now >>
    /\ UNCHANGED uiVars
    /\ UNCHANGED dragVars

\* toggleTrackMute(trackId, isAudioTrack)
MuteToggled(tracks, trackId) ==
    [i \in 1..Len(tracks) |->
        IF tracks[i].id = trackId THEN [tracks[i] EXCEPT !.isMuted = ~@] ELSE tracks[i]]

toggleTrackMute(trackId, isAudioTrack) ==
    /\ Mounted
    /\ pushVideoHistory
    /\ IF isAudioTrack
       THEN /\ timelineAudioTracks' = MuteToggled(timelineAudioTracks, trackId)
            /\ UNCHANGED videoTracks
       ELSE /\ videoTracks' = MuteToggled(videoTracks, trackId)
            /\ UNCHANGED timelineAudioTracks
    /\ Note("mute", NoArg, Tracks, EndRun)
    /\ UNCHANGED << videoPool, selectedClipId, now >>
    /\ UNCHANGED uiVars
    /\ UNCHANGED dragVars

-----------------------------------------------------------------------------
(* Import and placement *)

\* The files offered to the pool input (accept="video/*,image/*"): a still
\* image, and a video whose probed duration is not a multiple of 1e-4 s.
PoolFiles ==
    { [kind |-> "image", probe |-> 0],
      [kind |-> "video", probe |-> 2 * UnitsPerSecond + SubQuantum \div 2] }

\* The still image alone.
StillFiles == { f \in PoolFiles : f.kind = "image" }

\* The video alone.
MovieFiles == { f \in PoolFiles : f.kind = "video" }

\* The files offered to the timeline audio input (accept="audio/*").
AudioFiles == { [kind |-> "audio", probe |-> 3 * UnitsPerSecond] }

\* handleImportMedia: the clip built from a file; probe = 0 stands for a
\* failed probe or a duration of 0 or NaN, which fall back to 10 s.
ImportedClip(file, t) ==
    LET isVideo  == file.kind = "video"
        isAudio  == file.kind = "audio"
        probed   == isVideo \/ isAudio
        duration == IF probed /\ file.probe # 0 THEN file.probe ELSE 10 * UnitsPerSecond
    IN  [ id               |-> << t >>,
          src              |-> file.kind,
          type             |-> IF isVideo THEN "video" ELSE IF isAudio THEN "video" ELSE "image",
          originalDuration |-> duration,
          duration         |-> IF probed THEN duration ELSE 5 * UnitsPerSecond,
          startTime        |-> 0,
          trimStart        |-> 0,
          trimEnd          |-> IF probed THEN duration ELSE 5 * UnitsPerSecond,
          brightness       |-> 100,
          contrast         |-> 100,
          saturation       |-> 100,
          filterPreset     |-> "none",
          fadeIn           |-> 0,
          fadeOut          |-> 0,
          fadeCurve        |-> "smooth",
          volume           |-> 100,
          speed            |-> 100 ]

\* newTracks[0].clips.push(newClip), run once, or twice where React's
\* StrictMode (src/index.tsx) invokes the state updater a second time on the
\* array the first invocation already extended.
PushedInPlace(tracks, newClip, times) ==
    [tracks EXCEPT ![1].clips = IF times = 2 THEN @ \o << newClip, newClip >>
                                              ELSE Append(@, newClip)]

handleImportMedia(file, isTimelineAudio, times) ==
    /\ Mounted
    /\ LET newClip == ImportedClip(file, now)
       IN  IF isTimelineAudio
           THEN /\ timelineAudioTracks' = PushedInPlace(timelineAudioTracks, newClip, times)
                /\ UNCHANGED videoPool
           ELSE /\ videoPool' = Append(videoPool, newClip)
                /\ UNCHANGED timelineAudioTracks
    /\ now' = now + 1
    /\ noPush
    /\ Note("import", NoArg, NoTracks, EndRun)
    /\ UNCHANGED << videoTracks, selectedClipId >>
    /\ UNCHANGED uiVars
    /\ UNCHANGED dragVars

\* getTimelineTimeFromEvent: the pointer's pixel offset in the clip area to a
\* quantized, non-negative timeline time.
getTimelineTimeFromEvent(contentX) ==
    RoundRatio(Max2(0, contentX) * UnitsPerSecond, timelineScale)

\* The start time without the first-clip rule.
DropStartTimeAnywhere(trackId, isAudioTrack, contentX) ==
    getTimelineTimeFromEvent(contentX)

\* handleTrackDrop: the start time given to the dropped clip.
DropStartTime(trackId, isAudioTrack, contentX) ==
    LET dropTime     == getTimelineTimeFromEvent(contentX)
        tracks       == IF isAudioTrack THEN timelineAudioTracks ELSE videoTracks
        i            == IndexOfId(tracks, trackId)
        isTrackEmpty == i # 0 /\ Len(tracks[i].clips) = 0
    IN  IF isTrackEmpty THEN 0 ELSE dropTime

ClipAppended(tracks, trackId, newClip) ==
    [i \in 1..Len(tracks) |->
        IF tracks[i].id = trackId
        THEN [tracks[i] EXCEPT !.clips = Append(@, newClip)]
        ELSE tracks[i]]

\* handleTrackDrop(e, trackId, isAudioTrack), the dragged pool clip being
\* sourceClip and the pointer at contentX.
handleTrackDrop(sourceClip, trackId, isAudioTrack, contentX) ==
    /\ Mounted
    /\ LET finalTime == DropStartTime(trackId, isAudioTrack, contentX)
           newClip   == [sourceClip EXCEPT !.id = << now >>, !.startTime = finalTime]
       IN  /\ pushVideoHistory
           /\ IF isAudioTrack
              THEN /\ timelineAudioTracks' = ClipAppended(timelineAudioTracks, trackId, newClip)
                   /\ UNCHANGED videoTracks
              ELSE /\ videoTracks' = ClipAppended(videoTracks, trackId, newClip)
                   /\ UNCHANGED timelineAudioTracks
    /\ now' = now + 1
    /\ Note("drop", [trackId |-> trackId, isAudioTrack |-> isAudioTrack, t |-> now,
                      x |-> contentX,
                      dropTime |-> getTimelineTimeFromEvent(contentX)], Tracks, EndRun)
    /\ UNCHANGED << videoPool, selectedClipId >>
    /\ UNCHANGED uiVars
    /\ UNCHANGED dragVars

\* The filter applied to the first track only.
ClipRemovedFirstTrack(tracks, clipId) ==
    LET Keep(c) == c.id # clipId
    IN  [i \in 1..Len(tracks) |->
            IF i = 1 THEN [tracks[i] EXCEPT !.clips = SelectSeq(@, Keep)] ELSE tracks[i]]

\* t.clips.filter(c => c.id !== selectedClipId) on every track
ClipRemoved(tracks, clipId) ==
    LET Keep(c) == c.id # clipId
    IN  [i \in 1..Len(tracks) |-> [tracks[i] EXCEPT !.clips = SelectSeq(@, Keep)]]

\* handleDeleteClip
handleDeleteClip ==
    /\ Mounted
    /\ IF selectedClipId = NoId
       THEN /\ noPush
            /\ UNCHANGED << videoTracks, timelineAudioTracks, selectedClipId >>
            /\ Note("delete-noop", NoArg, NoTracks, EndRun)
       ELSE /\ pushVideoHistory
            /\ videoTracks' = ClipRemoved(videoTracks, selectedClipId)
            /\ timelineAudioTracks' = ClipRemoved(timelineAudioTracks, selectedClipId)
            /\ selectedClipId' = NoId
            /\ Note("delete", [id |-> selectedClipId], Tracks, EndRun)
    /\ UNCHANGED << videoPool, now >>
    /\ UNCHANGED uiVars
    /\ UNCHANGED dragVars

-----------------------------------------------------------------------------
(* Split *)

\* { ...a, ...b }: object spread, b's fields winning.
Spread(a, b) ==
    [k \in DOMAIN a \cup DOMAIN b |-> IF k \in DOMAIN b THEN b[k] ELSE a[k]]

\* The guard without its test of the length before the split.
SplitRejectedTailOnly(clip, relativeTime) == (clip.duration - relativeTime) < MinFragment

\* The guard without its test of the remaining length.
SplitRejectedHeadOnly(clip, relativeTime) == relativeTime < MinFragment

\* The minimum-fragment guard of both split entry points.
SplitRejected(clip, relativeTime) ==
    relativeTime < MinFragment \/ (clip.duration - relativeTime) < MinFragment

\* handleSplitAtPlayhead: fragment A (the original id kept).
PlayheadClipA(clip, splitTime) ==
    Spread(clip, [duration |-> splitTime, trimEnd |-> clip.trimStart + splitTime])

\* handleSplitAtPlayhead: fragment B (id + '_split_' + Date.now()).
PlayheadClipB(clip, splitTime, t) ==
    Spread(clip, [startTime |-> clip.startTime + splitTime,
                  trimStart |-> clip.trimStart + splitTime,
                  duration  |-> roundTime(clip.duration - splitTime),
                  id        |-> Append(clip.id, t)])

\* An updateTracks that does not test the track id.
SplitInEveryTrack(tracks, trackId, clipId, clipA, clipB) ==
    [i \in 1..Len(tracks) |->
        [tracks[i] EXCEPT !.clips =
            [j \in 1..Len(@) |-> IF @[j].id = clipId THEN clipA ELSE @[j]]
            \o << clipB >>]]

\* updateTracks of both split entry points: A replaces every clip of the
\* split clip's id on the track, B is appended to that track.
SplitInTracks(tracks, trackId, clipId, clipA, clipB) ==
    [i \in 1..Len(tracks) |->
        IF tracks[i].id # trackId THEN tracks[i]
        ELSE [tracks[i] EXCEPT !.clips =
                 [j \in 1..Len(@) |-> IF @[j].id = clipId THEN clipA ELSE @[j]]
                 \o << clipB >>]]

\* allClips of handleSplitAtPlayhead: every clip with its track id and lane.
RECURSIVE TaggedClips(_, _)
TaggedClips(tracks, isAudio) ==
    IF tracks = << >> THEN << >>
    ELSE [j \in 1..Len(Head(tracks).clips) |->
             Spread(Head(tracks).clips[j], [trackId |-> Head(tracks).id, isAudio |-> isAudio])]
         \o TaggedClips(Tail(tracks), isAudio)

\* handleSplitAtPlayhead
handleSplitAtPlayhead ==
    /\ Mounted
    /\ LET allClips == TaggedClips(videoTracks, FALSE) \o TaggedClips(timelineAudioTracks, TRUE)
           found    == IndexOfId(allClips, selectedClipId)
       IN  IF selectedClipId = NoId \/ found = 0
           THEN /\ noPush
                /\ UNCHANGED << videoTracks, timelineAudioTracks, now >>
                /\ Note("split-none", NoArg, NoTracks, EndRun)
           ELSE LET clip         == allClips[found]
                    relativeTime == roundTime(currentVideoTime - clip.startTime)
                IN  IF SplitRejected(clip, relativeTime)
                    THEN /\ noPush
                         /\ UNCHANGED << videoTracks, timelineAudioTracks, now >>
                         /\ Note("split-noop", [clip |-> clip, relativeTime |-> relativeTime], NoTracks, EndRun)
                    ELSE LET clipA == PlayheadClipA(clip, relativeTime)
                             clipB == PlayheadClipB(clip, relativeTime, now)
                         IN  /\ pushVideoHistory
                             /\ IF clip.isAudio
                                THEN /\ timelineAudioTracks' =
                                          SplitInTracks(timelineAudioTracks, clip.trackId, clip.id, clipA, clipB)
                                     /\ UNCHANGED videoTracks
                                ELSE /\ videoTracks' =
                                          SplitInTracks(videoTracks, clip.trackId, clip.id, clipA, clipB)
                                     /\ UNCHANGED timelineAudioTracks
                             /\ now' = now + 1
                             /\ Note("split", [clip |-> clip, relativeTime |-> relativeTime, t |-> now], Tracks, EndRun)
    /\ UNCHANGED << videoPool, selectedClipId >>
    /\ UNCHANGED uiVars
    /\ UNCHANGED dragVars

\* handleClipMouseDown, razor branch: fragment A.
RazorClipA(clip, splitTime) ==
    Spread(clip, [duration |-> splitTime, trimEnd |-> clip.trimStart + splitTime])

\* Fragment B keeping the whole duration of the clip.
RazorClipBWhole(clip, splitTime, t) ==
    Spread(clip, [startTime |-> clip.startTime + splitTime,
                  trimStart |-> clip.trimStart + splitTime,
                  id        |-> Append(clip.id, t)])

\* handleClipMouseDown, razor branch: fragment B.
RazorClipB(clip, splitTime, t) ==
    Spread(clip, [startTime |-> clip.startTime + splitTime,
                  trimStart |-> clip.trimStart + splitTime,
                  duration  |-> roundTime(clip.duration - splitTime),
                  id        |-> Append(clip.id, t)])

\* The pointer is on the clip's box: left = startTime * scale, width =
\* duration * scale (+ 1 pixel on video tracks).
OnClipBox(clip, isAudioTrack, contentX) ==
    /\ contentX * UnitsPerSecond >= clip.startTime * timelineScale
    /\ contentX * UnitsPerSecond <= (clip.startTime + clip.duration) * timelineScale
                                     + (IF isAudioTrack THEN 0 ELSE UnitsPerSecond)

\* The branch test of a press that takes every tool for the move tool.
RazorActiveNever(tool) == FALSE

\* videoEditTool === 'razor'
RazorActive(tool) == tool = "razor"

\* handleClipMouseDown(e, clip, trackId, isAudioTrack) with the pointer at contentX
handleClipMouseDown(clip, trackId, isAudioTrack, contentX) ==
    /\ Mounted
    /\ OnClipBox(clip, isAudioTrack, contentX)
    /\ IF RazorActive(videoEditTool)
       THEN LET globalTime   == getTimelineTimeFromEvent(contentX)
                relativeTime == roundTime(globalTime - clip.startTime)
            IN  /\ IF SplitRejected(clip, relativeTime)
                   THEN /\ noPush
                        /\ UNCHANGED << videoTracks, timelineAudioTracks, now >>
                        /\ Note("razor-noop", [clip |-> clip, relativeTime |-> relativeTime,
                                            globalTime |-> globalTime], NoTracks, EndRun)
                   ELSE LET clipA == RazorClipA(clip, relativeTime)
                            clipB == RazorClipB(clip, relativeTime, now)
                        IN  /\ pushVideoHistory
                            /\ IF isAudioTrack
                               THEN /\ timelineAudioTracks' =
                                         SplitInTracks(timelineAudioTracks, trackId, clip.id, clipA, clipB)
                                    /\ UNCHANGED videoTracks
                               ELSE /\ videoTracks' =
                                         SplitInTracks(videoTracks, trackId, clip.id, clipA, clipB)
                                    /\ UNCHANGED timelineAudioTracks
                            /\ now' = now + 1
                            /\ Note("razor", [clip |-> clip, relativeTime |-> relativeTime, t |-> now,
                                           globalTime |-> globalTime], Tracks, EndRun)
                /\ UNCHANGED << selectedClipId >>
                /\ UNCHANGED dragVars
       ELSE /\ selectedClipId' = clip.id
            /\ draggingClipId' = clip.id
            /\ dragStartX' = contentX
            /\ dragOriginalStartTime' = clip.startTime
            /\ noPush
            /\ Note("grab", [id |-> clip.id], Tracks, EndRun)
            /\ UNCHANGED << videoTracks, timelineAudioTracks, isScrubbing, now >>
    /\ UNCHANGED << videoPool >>
    /\ UNCHANGED uiVars

-----------------------------------------------------------------------------
(* Move with magnet snap, scrubbing *)

\* Math.abs(a - b) < snapThreshold, with snapThreshold = 15 / timelineScale
WithinSnap(a, b) == Abs(a - b) * timelineScale < SnapPixels * UnitsPerSecond

\* An iteration that snaps to the start of the other clip only.
SnapToClipStartOnly(other, newStartTime) ==
    IF WithinSnap(newStartTime, other.startTime) THEN other.startTime ELSE newStartTime

\* One iteration of the magnet loop against clip other.
SnapToClip(other, newStartTime) ==
    LET afterEnd == IF WithinSnap(newStartTime, other.startTime + other.duration)
                    THEN other.startTime + other.duration ELSE newStartTime
    IN  IF WithinSnap(afterEnd, other.startTime) THEN other.startTime ELSE afterEnd

\* for (const other of allClips) { if (other.id === draggingClipId) continue; ... }
RECURSIVE SnapLoop(_, _)
SnapLoop(clips, newStartTime) ==
    IF clips = << >> THEN newStartTime
    ELSE IF Head(clips).id = draggingClipId THEN SnapLoop(Tail(clips), newStartTime)
    ELSE SnapLoop(Tail(clips), SnapToClip(Head(clips), newStartTime))

\* The candidate start time of a move: roundTime(original + delta / scale), not below 0.
MoveCandidate(deltaPixels) ==
    Max2(0, RoundRatio(dragOriginalStartTime * timelineScale + deltaPixels * UnitsPerSecond,
                       timelineScale))

\* The magnet block: the loop, then the snap to 0.
MagnetSnap(candidate) ==
    LET looped == SnapLoop(AllClips(videoTracks, timelineAudioTracks), candidate)
    IN  IF looped * timelineScale < SnapPixels * UnitsPerSecond THEN 0 ELSE looped

\* handleTimelineMouseMove: the start time it gives the dragged clip.
MovedStartTime(deltaPixels) ==
    IF isMagnetEnabled THEN MagnetSnap(MoveCandidate(deltaPixels))
    ELSE MoveCandidate(deltaPixels)

\* An update that gives the start time to every clip.
ClipMovedAll(tracks, clipId, newStartTime) ==
    [i \in 1..Len(tracks) |->
        [tracks[i] EXCEPT !.clips =
            [j \in 1..Len(@) |-> [@[j] EXCEPT !.startTime = newStartTime]]]]

ClipMoved(tracks, clipId, newStartTime) ==
    [i \in 1..Len(tracks) |->
        [tracks[i] EXCEPT !.clips =
            [j \in 1..Len(@) |-> IF @[j].id = clipId
                                 THEN [@[j] EXCEPT !.startTime = newStartTime] ELSE @[j]]]]

\* handleTimelineMouseMove(e) with the pointer at contentX
handleTimelineMouseMove(contentX) ==
    /\ Mounted
    /\ IF isScrubbing
       THEN /\ currentVideoTime' = getTimelineTimeFromEvent(contentX)
            /\ Note("scrub", NoArg, NoTracks, EndRun)
            /\ UNCHANGED << videoTracks, timelineAudioTracks >>
       ELSE /\ draggingClipId # NoId
            /\ videoEditTool = "move"
            /\ LET newStartTime == MovedStartTime(contentX - dragStartX)
               IN  /\ videoTracks' = ClipMoved(videoTracks, draggingClipId, newStartTime)
                   /\ timelineAudioTracks' = ClipMoved(timelineAudioTracks, draggingClipId, newStartTime)
            /\ Note("drag", [candidate |-> MoveCandidate(contentX - dragStartX)],
                 IF lastOp.name \in {"grab", "drag"} THEN preMutation ELSE NoTracks, EndRun)
            /\ UNCHANGED currentVideoTime
    /\ noPush
    /\ UNCHANGED << videoPool, selectedClipId, now, isVideoPlaying, videoEditTool,
                    isMagnetEnabled, timelineScale >>
    /\ UNCHANGED recVars
    /\ UNCHANGED libVars
    /\ UNCHANGED dragVars

\* A pointer-up that ends the gesture without a push.
handleTimelineMouseUpNoPush ==
    /\ Mounted
    /\ draggingClipId # NoId \/ isScrubbing
    /\ noPush
    /\ IF draggingClipId # NoId /\ lastOp.name \in {"grab", "drag"}
       THEN Note("move", NoArg, preMutation, EndRun)
       ELSE Note("mouseup", NoArg, NoTracks, EndRun)
    /\ draggingClipId' = NoId
    /\ isScrubbing' = FALSE
    /\ UNCHANGED << videoPool, videoTracks, timelineAudioTracks, selectedClipId, now,
                    dragStartX, dragOriginalStartTime >>
    /\ UNCHANGED uiVars

\* handleTimelineMouseUp
handleTimelineMouseUp ==
    /\ Mounted
    /\ draggingClipId # NoId \/ isScrubbing
    /\ IF draggingClipId # NoId
       THEN /\ pushVideoHistory
            /\ IF lastOp.name \in {"grab", "drag"}
               THEN Note("move", NoArg, preMutation, EndRun)
               ELSE Note("mouseup", NoArg, NoTracks, EndRun)
       ELSE /\ noPush
            /\ Note("mouseup", NoArg, NoTracks, EndRun)
    /\ draggingClipId' = NoId
    /\ isScrubbing' = FALSE
    /\ UNCHANGED << videoPool, videoTracks, timelineAudioTracks, selectedClipId, now,
                    dragStartX, dragOriginalStartTime >>
    /\ UNCHANGED uiVars

\* A press on the timeline that starts a scrub and leaves the play flag.
handleTimelineMouseDownKeepsPlaying(contentX) ==
    /\ Mounted
    /\ isScrubbing' = TRUE
    /\ currentVideoTime' = getTimelineTimeFromEvent(contentX)
    /\ noPush
    /\ Note("scrub", NoArg, NoTracks, EndRun)
    /\ UNCHANGED << videoPool, videoTracks, timelineAudioTracks, selectedClipId, now,
                    videoEditTool, isMagnetEnabled, timelineScale, isVideoPlaying,
                    draggingClipId, dragStartX, dragOriginalStartTime >>
    /\ UNCHANGED recVars
    /\ UNCHANGED libVars

\* handleTimelineMouseDownWrapper(e) with the pointer at contentX
handleTimelineMouseDownWrapper(contentX) ==
    /\ Mounted
    /\ isScrubbing' = TRUE
    /\ isVideoPlaying' = FALSE
    /\ currentVideoTime' = getTimelineTimeFromEvent(contentX)
    /\ noPush
    /\ Note("scrub", NoArg, NoTracks, EndRun)
    /\ UNCHANGED << videoPool, videoTracks, timelineAudioTracks, selectedClipId, now,
                    videoEditTool, isMagnetEnabled, timelineScale,
                    draggingClipId, dragStartX, dragOriginalStartTime >>
    /\ UNCHANGED recVars
    /\ UNCHANGED libVars

\* setVideoEditTool('razor' | 'move')
setVideoEditTool(tool) ==
    /\ Mounted
    /\ videoEditTool # tool
    /\ videoEditTool' = tool
    /\ noPush
    /\ Note("tool", NoArg, NoTracks, EndRun)
    /\ UNCHANGED << videoPool, videoTracks, timelineAudioTracks, selectedClipId, now,
                    currentVideoTime, isVideoPlaying, isMagnetEnabled, timelineScale >>
    /\ UNCHANGED recVars
    /\ UNCHANGED libVars
    /\ UNCHANGED dragVars

\* setTimelineScale(Number(e.target.value)), the range input's min 5, max 100
setTimelineScale(scale) ==
    /\ Mounted
    /\ timelineScale # scale
    /\ timelineScale' = scale
    /\ noPush
    /\ Note("scale", NoArg, NoTracks, EndRun)
    /\ UNCHANGED << videoPool, videoTracks, timelineAudioTracks, selectedClipId, now,
                    currentVideoTime, isVideoPlaying, isMagnetEnabled, videoEditTool >>
    /\ UNCHANGED recVars
    /\ UNCHANGED libVars
    /\ UNCHANGED dragVars

-----------------------------------------------------------------------------
(* Playback and the screen recorder *)

\* toggleVideoPlay
toggleVideoPlay ==
    /\ Mounted
    /\ isVideoPlaying' = ~isVideoPlaying
    /\ noPush
    /\ Note(IF isVideoPlaying THEN "pause" ELSE "play", NoArg, NoTracks, EndRun)
    /\ UNCHANGED << videoPool, videoTracks, timelineAudioTracks, selectedClipId, now,
                    currentVideoTime, videoEditTool, isMagnetEnabled, timelineScale >>
    /\ UNCHANGED recVars
    /\ UNCHANGED libVars
    /\ UNCHANGED dragVars

\* A delta that is not capped.
safeDeltaUncapped(deltaTime) == deltaTime

\* Math.min(deltaTime, 0.1)
safeDelta(deltaTime) == IF deltaTime < UnitsPerSecond \div 10 THEN deltaTime ELSE UnitsPerSecond \div 10

\* A frame that passes the end without reaching it exactly.
AtEndBeyondOnly(nextTime) == nextTime > maxTime

\* nextTime >= maxTime
AtEnd(nextTime) == nextTime >= maxTime

\* MediaRecorder.stop(): the state becomes inactive and a stop event is queued.
RecorderStop == [state |-> "inactive", stopQueued |-> TRUE]

\* handleStopRecording, on the play flag and the recorder
StopRecording(playing) ==
    IF mediaRecorder.state = "recording"
    THEN [isVideoPlaying |-> FALSE, mediaRecorder |-> RecorderStop]
    ELSE [isVideoPlaying |-> playing, mediaRecorder |-> mediaRecorder]

\* animate(time), deltaTime after the previous frame, with the updater it
\* hands to setCurrentVideoTime
animate(deltaTime) ==
    /\ Mounted
    /\ isVideoPlaying
    /\ LET nextTime == currentVideoTime + safeDelta(deltaTime)
       IN  /\ IF AtEnd(nextTime)
              THEN LET stopped == IF recordingState = "recording"
                                  THEN StopRecording(FALSE)
                                  ELSE [isVideoPlaying |-> FALSE, mediaRecorder |-> mediaRecorder]
                   IN  /\ isVideoPlaying' = stopped.isVideoPlaying
                       /\ mediaRecorder' = stopped.mediaRecorder
                       /\ currentVideoTime' = maxTime
              ELSE /\ currentVideoTime' = nextTime
                   /\ UNCHANGED << isVideoPlaying, mediaRecorder >>
           /\ Note("tick", [nextTime |-> nextTime, deltaTime |-> deltaTime], NoTracks, EndRun)
    /\ noPush
    /\ UNCHANGED << videoPool, videoTracks, timelineAudioTracks, selectedClipId, now,
                    videoEditTool, isMagnetEnabled, timelineScale, isRecorderMode,
                    recordingState >>
    /\ UNCHANGED libVars
    /\ UNCHANGED dragVars

\* enterRecorderMode (getDisplayMedia is available)
enterRecorderMode ==
    /\ Mounted
    /\ ~isRecorderMode
    /\ isRecorderMode' = TRUE
    /\ recordingState' = "idle"
    /\ currentVideoTime' = 0
    /\ isVideoPlaying' = FALSE
    /\ noPush
    /\ Note("recorder-enter", NoArg, NoTracks, EndRun)
    /\ UNCHANGED << videoPool, videoTracks, timelineAudioTracks, selectedClipId, now,
                    videoEditTool, isMagnetEnabled, timelineScale, mediaRecorder >>
    /\ UNCHANGED libVars
    /\ UNCHANGED dragVars

\* exitRecorderMode, on the recorder state variables
ExitedRecorder ==
    /\ isRecorderMode' = FALSE
    /\ recordingState' = "idle"
    /\ mediaRecorder' = IF mediaRecorder.state = "recording" THEN RecorderStop ELSE mediaRecorder

\* exitRecorderMode
exitRecorderMode ==
    /\ isRecorderMode
    /\ recordingState # "recording"
    /\ ExitedRecorder
    /\ noPush
    /\ Note("recorder-exit", NoArg, NoTracks, EndRun)
    /\ UNCHANGED << videoPool, videoTracks, timelineAudioTracks, selectedClipId, now,
                    currentVideoTime, isVideoPlaying, videoEditTool, isMagnetEnabled,
                    timelineScale >>
    /\ UNCHANGED libVars
    /\ UNCHANGED dragVars

\* handleStartCapture, the screen share granted or refused
handleStartCapture(granted) ==
    /\ isRecorderMode
    /\ recordingState = "idle"
    /\ IF granted
       THEN /\ mediaRecorder' = [state |-> "inactive", stopQueued |-> FALSE]
            /\ recordingState' = "capturing"
            /\ UNCHANGED isRecorderMode
       ELSE /\ isRecorderMode' = FALSE
            /\ UNCHANGED << recordingState, mediaRecorder >>
    /\ noPush
    /\ Note("capture", NoArg, NoTracks, EndRun)
    /\ UNCHANGED << videoPool, videoTracks, timelineAudioTracks, selectedClipId, now,
                    currentVideoTime, isVideoPlaying, videoEditTool, isMagnetEnabled,
                    timelineScale >>
    /\ UNCHANGED libVars
    /\ UNCHANGED dragVars

\* stream.getVideoTracks()[0].onended: the user ends the screen share
streamEnded ==
    /\ recordingState \in {"capturing", "recording"}
    /\ IF mediaRecorder.state = "recording"
       THEN /\ mediaRecorder' = RecorderStop
            /\ UNCHANGED << isRecorderMode, recordingState >>
       ELSE ExitedRecorder
    /\ noPush
    /\ Note("stream-ended", NoArg, NoTracks, EndRun)
    /\ UNCHANGED << videoPool, videoTracks, timelineAudioTracks, selectedClipId, now,
                    currentVideoTime, isVideoPlaying, videoEditTool, isMagnetEnabled,
                    timelineScale >>
    /\ UNCHANGED libVars
    /\ UNCHANGED dragVars

\* handleStartRecording
handleStartRecording ==
    /\ isRecorderMode
    /\ recordingState = "capturing"
    /\ IF mediaRecorder.state = "inactive"
       THEN /\ mediaRecorder' = [state |-> "recording", stopQueued |-> mediaRecorder.stopQueued]
            /\ recordingState' = "recording"
            /\ currentVideoTime' = 0
            /\ isVideoPlaying' = TRUE
       ELSE UNCHANGED << mediaRecorder, recordingState, currentVideoTime, isVideoPlaying >>
    /\ noPush
    /\ Note("record", NoArg, NoTracks, EndRun)
    /\ UNCHANGED << videoPool, videoTracks, timelineAudioTracks, selectedClipId, now,
                    videoEditTool, isMagnetEnabled, timelineScale, isRecorderMode >>
    /\ UNCHANGED libVars
    /\ UNCHANGED dragVars

\* handleStopRecording, from the recorder's stop button
handleStopRecording ==
    /\ isRecorderMode
    /\ recordingState = "recording"
    /\ isVideoPlaying' = StopRecording(isVideoPlaying).isVideoPlaying
    /\ mediaRecorder' = StopRecording(isVideoPlaying).mediaRecorder
    /\ noPush
    /\ Note("record-stop", NoArg, NoTracks, EndRun)
    /\ UNCHANGED << videoPool, videoTracks, timelineAudioTracks, selectedClipId, now,
                    currentVideoTime, videoEditTool, isMagnetEnabled, timelineScale,
                    isRecorderMode, recordingState >>
    /\ UNCHANGED libVars
    /\ UNCHANGED dragVars

\* recorder.onstop: the queued stop event is delivered
recorderOnStop ==
    /\ mediaRecorder.stopQueued
    /\ mediaRecorder' = [mediaRecorder EXCEPT !.stopQueued = FALSE]
    /\ recordingState' = "review"
    /\ isVideoPlaying' = FALSE
    /\ noPush
    /\ Note("recorder-stopped", NoArg, NoTracks, EndRun)
    /\ UNCHANGED << videoPool, videoTracks, timelineAudioTracks, selectedClipId, now,
                    currentVideoTime, videoEditTool, isMagnetEnabled, timelineScale,
                    isRecorderMode >>
    /\ UNCHANGED libVars
    /\ UNCHANGED dragVars

-----------------------------------------------------------------------------
(* The active-clip resolver *)

\* null
Null == [null |-> TRUE]

\* lookAhead = 0.05
LookAhead == UnitsPerSecond \div 20

\* Array.prototype.find: the first element that satisfies Test, or Null.
\* The video lane's test: (currentVideoTime + lookAhead) >= c.startTime &&
\* currentVideoTime < (c.startTime + c.duration)
VisibleClipOf(track) ==
    LET Test(c) == /\ currentVideoTime + LookAhead >= c.startTime
                   /\ currentVideoTime < c.startTime + c.duration
        found   == SelectSeq(track.clips, Test)
    IN  IF found = << >> THEN Null ELSE Head(found)

\* The audio lane's test given the video lane's look-ahead.
AudioClipOfLookAhead(track) == VisibleClipOf(track)

\* The audio lane's test: currentVideoTime >= c.startTime &&
\* currentVideoTime < (c.startTime + c.duration)
AudioClipOf(track) ==
    LET Test(c) == /\ currentVideoTime >= c.startTime
                   /\ currentVideoTime < c.startTime + c.duration
        found   == SelectSeq(track.clips, Test)
    IN  IF found = << >> THEN Null ELSE Head(found)

\* The iteration without its test of isMuted.
VisibleOnTrackMutedToo(track, idx) ==
    IF VisibleClipOf(track) = Null THEN << >>
    ELSE << [clip |-> VisibleClipOf(track), track |-> track, trackIndex |-> idx] >>

\* One iteration of videoTracks.forEach((track, idx) => ...): what it pushes.
VisibleOnTrack(track, idx) ==
    IF track.isMuted THEN << >>
    ELSE IF VisibleClipOf(track) = Null THEN << >>
    ELSE << [clip |-> VisibleClipOf(track), track |-> track, trackIndex |-> idx] >>

RECURSIVE VisibleFrom(_)
VisibleFrom(i) ==
    IF i > Len(videoTracks) THEN << >>
    ELSE VisibleOnTrack(videoTracks[i], i - 1) \o VisibleFrom(i + 1)

\* visibleClips.sort((a, b) => a.trackIndex - b.trackIndex), a stable sort.
RECURSIVE InsertByTrackIndex(_, _)
InsertByTrackIndex(sorted, e) ==
    IF sorted = << >> THEN << e >>
    ELSE IF e.trackIndex - Head(sorted).trackIndex < 0 THEN << e >> \o sorted
    ELSE << Head(sorted) >> \o InsertByTrackIndex(Tail(sorted), e)

RECURSIVE SortByTrackIndex(_)
SortByTrackIndex(seq) ==
    IF seq = << >> THEN << >>
    ELSE InsertByTrackIndex(SortByTrackIndex(SubSeq(seq, 1, Len(seq) - 1)), seq[Len(seq)])

\* for (const track of timelineAudioTracks) { ...; if (clip) { ...; break; } }
RECURSIVE ActiveAudioFrom(_)
ActiveAudioFrom(i) ==
    IF i > Len(timelineAudioTracks) THEN [activeAudioClip |-> Null, activeAudioTrack |-> Null]
    ELSE IF timelineAudioTracks[i].isMuted THEN ActiveAudioFrom(i + 1)
    ELSE IF AudioClipOf(timelineAudioTracks[i]) = Null THEN ActiveAudioFrom(i + 1)
    ELSE [activeAudioClip  |-> AudioClipOf(timelineAudioTracks[i]),
          activeAudioTrack |-> timelineAudioTracks[i]]

\* getAllActiveClips
getAllActiveClips ==
    [visibleClips     |-> SortByTrackIndex(VisibleFrom(1)),
     activeAudioClip  |-> ActiveAudioFrom(1).activeAudioClip,
     activeAudioTrack |-> ActiveAudioFrom(1).activeAudioTrack]

-----------------------------------------------------------------------------
(* Fades and the media synchronizer *)

RECURSIVE GCD(_, _)
GCD(a, b) == IF b = 0 THEN a ELSE GCD(b, a % b)

\* The number n / d in lowest terms; d = 0 stands for n / 0, plus or minus
\* Infinity by the sign of n (n # 0).
Ratio(n, d) ==
    IF d = 0 THEN [num |-> IF n < 0 THEN -1 ELSE 1, den |-> 0]
    ELSE LET g == GCD(Abs(n), d)
         IN  [num |-> n \div g, den |-> d \div g]

Zero == Ratio(0, 1)
One == Ratio(1, 1)

\* a <= b, for two finite numbers
AtMost(a, b) == a.num * b.den <= b.num * a.den

\* A curve that does not clamp above 1.
calculateFadeFactorLinearUnclamped(t, type) ==
    IF t.num <= 0 THEN Zero
    ELSE IF type = "linear" THEN t
    ELSE IF t.num >= t.den THEN One
    ELSE IF type = "buttery"
         THEN Ratio(t.num * t.num * t.num * (t.num * (t.num * 6 - 15 * t.den) + 10 * t.den * t.den),
                    t.den * t.den * t.den * t.den * t.den)
    ELSE Ratio(t.num * t.num * (3 * t.den - 2 * t.num), t.den * t.den * t.den)

\* calculateFadeFactor(t, type), t a number other than NaN
calculateFadeFactor(t, type) ==
    IF t.num <= 0 THEN Zero
    ELSE IF t.num >= t.den THEN One
    ELSE IF type = "linear" THEN t
    ELSE IF type = "buttery"
         THEN Ratio(t.num * t.num * t.num * (t.num * (t.num * 6 - 15 * t.den) + 10 * t.den * t.den),
                    t.den * t.den * t.den * t.den * t.den)
    ELSE Ratio(t.num * t.num * (3 * t.den - 2 * t.num), t.den * t.den * t.den)

\* A fade that takes the fade-out branch only.
FadeFactorOutOnly(clip) ==
    LET timeFromEnd == (clip.startTime + clip.duration) - currentVideoTime
    IN  IF timeFromEnd < clip.fadeOut
        THEN calculateFadeFactor(Ratio(timeFromEnd, clip.fadeOut), clip.fadeCurve)
        ELSE One

\* The fade factor of a clip at the current time, as the synchronizer and the
\* preview both compute it (clip.fadeCurve || 'smooth': the curve is never
\* empty in the model).
FadeFactor(clip) ==
    LET timeInClip  == currentVideoTime - clip.startTime
        timeFromEnd == (clip.startTime + clip.duration) - currentVideoTime
    IN  IF timeInClip < clip.fadeIn
        THEN calculateFadeFactor(Ratio(timeInClip, clip.fadeIn), clip.fadeCurve)
        ELSE IF timeFromEnd < clip.fadeOut
        THEN calculateFadeFactor(Ratio(timeFromEnd, clip.fadeOut), clip.fadeCurve)
        ELSE One

\* Math.max(0, Math.min(1, x))
Clamp01(x) == IF AtMost(x, Zero) THEN Zero ELSE IF AtMost(One, x) THEN One ELSE x

\* Math.max(0, Math.min(1, ((clip.volume || 100) / 100) * fadeFactor))
ElementVolume(clip) ==
    LET volume == IF clip.volume = 0 THEN 100 ELSE clip.volume
    IN  Clamp01(Ratio(volume * FadeFactor(clip).num, 100 * FadeFactor(clip).den))

\* The media synchronizer effect, its elements ready (readyState >= 1): the
\* volume it sets on the element of each visible video clip and on the audio
\* player.
MediaSync ==
    [video |-> [id \in { e.clip.id : e \in { v \in Range(getAllActiveClips.visibleClips) :
                                               v.clip.type = "video" } } |->
                   ElementVolume((CHOOSE e \in Range(getAllActiveClips.visibleClips) :
                                      e.clip.id = id).clip)],
     audio |-> IF getAllActiveClips.activeAudioClip = Null THEN Null
               ELSE ElementVolume(getAllActiveClips.activeAudioClip)]

\* { ...c, ...updates }
Updated(c, updates) ==
    [f \in DOMAIN c |-> IF f \in DOMAIN updates THEN updates[f] ELSE c[f]]

\* updateSelectedClip(updates)
updateSelectedClip(updates) ==
    /\ Mounted
    /\ IF selectedClipId = NoId
       THEN UNCHANGED << videoTracks, timelineAudioTracks >>
       ELSE LET applyUpdate(tracks) ==
                    [i \in 1..Len(tracks) |->
                        [tracks[i] EXCEPT !.clips =
                            [j \in 1..Len(@) |-> IF @[j].id = selectedClipId
                                                 THEN Updated(@[j], updates) ELSE @[j]]]]
            IN  /\ videoTracks' = applyUpdate(videoTracks)
                /\ timelineAudioTracks' = applyUpdate(timelineAudioTracks)
    /\ noPush
    /\ Note("update", updates, NoTracks, EndRun)
    /\ UNCHANGED << videoPool, selectedClipId, now >>
    /\ UNCHANGED uiVars
    /\ UNCHANGED dragVars

-----------------------------------------------------------------------------
(* Project files *)

\* A clip as a saved project holds it.
SavedClip(n, kind, start, seconds) ==
    [ImportedClip([kind |-> kind, probe |-> seconds * UnitsPerSecond], n)
        EXCEPT !.startTime = start]

SavedTrack(id, clips, isMuted) ==
    [id |-> id, name |-> id, clips |-> clips, isMuted |-> isMuted, isLocked |-> FALSE]

\* A project saved with overlapping clips on the first video track, a muted
\* third video track and two timeline audio tracks.
LayeredProject ==
    [videoTracks |->
        << SavedTrack("v1", << SavedClip(101, "video", 0, 5),
                               SavedClip(102, "video", 3 * UnitsPerSecond, 5) >>, FALSE),
           SavedTrack("v2", << SavedClip(103, "video", 4 * UnitsPerSecond, 5) >>, FALSE),
           SavedTrack("v3", << SavedClip(104, "video", 0, 9) >>, TRUE) >>,
     timelineAudioTracks |->
        << SavedTrack("a1", << SavedClip(105, "audio", 2 * UnitsPerSecond, 3) >>, FALSE),
           SavedTrack("a2", << SavedClip(106, "audio", 0, 6),
                               SavedClip(107, "audio", 1 * UnitsPerSecond, 6) >>, FALSE) >>]

\* A project file that holds timeline audio tracks only.
AudioProject ==
    [timelineAudioTracks |->
        << SavedTrack("a1", << SavedClip(108, "audio", 0, 3) >>, TRUE),
           SavedTrack("a2", << SavedClip(109, "audio", 1 * UnitsPerSecond, 3) >>, FALSE) >>]

\* A project with one 4 s clip on the first video track, 2 s in.
FourSecondProject ==
    [videoTracks |->
        << SavedTrack("v1", << SavedClip(121, "video", 2 * UnitsPerSecond, 4) >>, FALSE),
           SavedTrack("v2", << >>, FALSE) >>]

\* A project whose first video track and first audio track are locked.
LockedProject ==
    [videoTracks |->
        << [SavedTrack("v1", << SavedClip(111, "video", 0, 5) >>, FALSE) EXCEPT !.isLocked = TRUE],
           SavedTrack("v2", << >>, FALSE),
           SavedTrack("v3", << >>, FALSE) >>,
     timelineAudioTracks |->
        << [SavedTrack("a1", << SavedClip(112, "audio", 0, 3) >>, FALSE) EXCEPT !.isLocked = TRUE] >>]

-----------------------------------------------------------------------------
(* The colour assistant *)

\* getSelectedClip (lines 866-869) over the collections of one render: the
\* first clip with the selected id, video tracks first, or null.
getSelectedClip(vt, at, id) ==
    LET all  == AllClips(vt, at)
        hits == { i \in 1..Len(all) : all[i].id = id }
    IN  IF hits = {} THEN Null
        ELSE all[CHOOSE i \in hits : \A k \in hits : i <= k]

\* The colour fields a suggestion may carry.
NumberFields == << "brightness", "contrast", "saturation" >>
AiFields == Range(NumberFields) \cup {"filterPreset"}

\* result.key && result.key !== clip.key, for a number: 0 and a missing
\* field are falsy.
StagesNumber(result, clip, key) ==
    /\ key \in DOMAIN result
    /\ result[key] # 0
    /\ result[key] # clip[key]

\* result.filterPreset && result.filterPreset !== 'none' &&
\* result.filterPreset !== clip.filterPreset
StagesPreset(result, clip) ==
    /\ "filterPreset" \in DOMAIN result
    /\ result.filterPreset # ""
    /\ result.filterPreset # "none"
    /\ result.filterPreset # clip.filterPreset

\* One AiChangeItem; the label is display text.
AiChangeItem(key, oldValue, newValue) ==
    [key |-> key, oldValue |-> oldValue, newValue |-> newValue, selected |-> TRUE]

\* The changes array handleAiVideoAnalysis builds (lines 889-901).
AiChanges(result, clip) ==
    LET number(key) == IF StagesNumber(result, clip, key)
                       THEN << AiChangeItem(key, clip[key], result[key]) >> ELSE << >>
    IN  number("brightness") \o number("contrast") \o number("saturation")
        \o (IF StagesPreset(result, clip)
            THEN << AiChangeItem("filterPreset", clip.filterPreset, result.filterPreset) >>
            ELSE << >>)

\* handleAiVideoAnalysis up to its first await (lines 871-878): the staged
\* changes are cleared, playback is paused, and the rest of the handler keeps
\* the getSelectedClip of the render the button was pressed in.
handleAiVideoAnalysis ==
    /\ Mounted
    /\ aiRequest = NoRequest
    /\ aiPendingChanges' = << >>
    /\ isVideoPlaying' = FALSE
    /\ aiRequest' = [clip |-> getSelectedClip(videoTracks, timelineAudioTracks, selectedClipId)]
    /\ noPush
    /\ Note("ai-start", NoArg, NoTracks, EndRun)
    /\ UNCHANGED << videoPool, videoTracks, timelineAudioTracks, selectedClipId, now,
                    currentVideoTime, videoEditTool, isMagnetEnabled, timelineScale,
                    gallery, audioStudioTracks >>
    /\ UNCHANGED recVars
    /\ UNCHANGED studioVars
    /\ UNCHANGED dragVars

\* handleAiVideoAnalysis after its awaits (lines 880-909): framed says
\* whether captureCurrentFrame returned a frame, result is what
\* analyzeVideoFrameForEditing resolved to.
aiAnalysisSettled(framed, result) ==
    /\ aiRequest # NoRequest
    /\ aiPendingChanges' = IF framed /\ aiRequest.clip # Null
                           THEN AiChanges(result, aiRequest.clip)
                           ELSE aiPendingChanges
    /\ aiRequest' = NoRequest
    /\ noPush
    /\ Note("ai-result", [framed |-> framed, result |-> result, clip |-> aiRequest.clip],
            NoTracks, EndRun)
    /\ UNCHANGED << videoPool, videoTracks, timelineAudioTracks, selectedClipId, now,
                    currentVideoTime, isVideoPlaying, videoEditTool, isMagnetEnabled,
                    timelineScale, gallery, audioStudioTracks >>
    /\ UNCHANGED recVars
    /\ UNCHANGED studioVars
    /\ UNCHANGED dragVars

\* The updates object of handleApplyAiSuggestions (lines 919-924).
AiUpdates(changes) ==
    LET chosen == { i \in 1..Len(changes) : changes[i].selected }
    IN  [key \in { changes[i].key : i \in chosen } |->
            changes[CHOOSE i \in chosen : changes[i].key = key].newValue]

\* handleApplyAiSuggestions (lines 913-932): only the video tracks are mapped.
handleApplyAiSuggestions ==
    /\ Mounted
    /\ IF selectedClipId = NoId \/ Len(aiPendingChanges) = 0
       THEN /\ noPush
            /\ UNCHANGED << videoTracks, aiPendingChanges >>
            /\ Note("ai-apply-noop", NoArg, NoTracks, EndRun)
       ELSE /\ pushVideoHistory
            /\ videoTracks' =
                  [i \in 1..Len(videoTracks) |->
                      [videoTracks[i] EXCEPT !.clips =
                          [j \in 1..Len(@) |->
                              IF @[j].id = selectedClipId
                              THEN Updated(@[j], AiUpdates(aiPendingChanges)) ELSE @[j]]]]
            /\ aiPendingChanges' = << >>
            /\ Note("ai-apply", AiUpdates(aiPendingChanges), Tracks, EndRun)
    /\ UNCHANGED << videoPool, timelineAudioTracks, selectedClipId, now, aiRequest,
                    currentVideoTime, isVideoPlaying, videoEditTool, isMagnetEnabled,
                    timelineScale, gallery, audioStudioTracks >>
    /\ UNCHANGED recVars
    /\ UNCHANGED studioVars
    /\ UNCHANGED dragVars

\* toggleAiChangeSelection(index) (lines 934-936)
toggleAiChangeSelection(index) ==
    /\ Mounted
    /\ index \in 1..Len(aiPendingChanges)
    /\ aiPendingChanges' = [aiPendingChanges EXCEPT ![index].selected = ~@]
    /\ noPush
    /\ Note("ai-toggle", [index |-> index], NoTracks, EndRun)
    /\ UNCHANGED << videoPool, videoTracks, timelineAudioTracks, selectedClipId, now,
                    aiRequest, currentVideoTime, isVideoPlaying, videoEditTool,
                    isMagnetEnabled, timelineScale, gallery, audioStudioTracks >>
    /\ UNCHANGED recVars
    /\ UNCHANGED studioVars
    /\ UNCHANGED dragVars

-----------------------------------------------------------------------------
(* The audio studio and its audio graph *)

\* An AudioTrack of the studio, with the fields the graph reads.
StudioTrack(id, volume, isMuted, isSolo) ==
    [id |-> id, volume |-> volume, pan |-> 0, isMuted |-> isMuted, isSolo |-> isSolo,
     eq |-> [low |-> 0, mid |-> 0, high |-> 0]]

\* Map.prototype.set and Map.prototype.delete
MapSet(map, key, value) ==
    [k \in DOMAIN map \cup {key} |-> IF k = key THEN value ELSE map[k]]
MapDelete(map, key) == [k \in DOMAIN map \ {key} |-> map[k]]

\* new AudioGraph(): the four node maps, empty.
NewAudioGraph == [sources |-> EmptyMap, gains |-> EmptyMap, eqs |-> EmptyMap, pans |-> EmptyMap]

\* A new audio element, not yet given to createMediaElementSource.
NewElement == [connected |-> FALSE]

\* createMediaElementSource(element) throws InvalidStateError for an element
\* that already has a source node.
CreateSourceThrows(element) == element.connected

\* An addTrack that stores the source and the gain only.
addTrackSourceAndGain(graph, id, element) ==
    IF id \in DOMAIN graph.sources \/ CreateSourceThrows(element) THEN graph
    ELSE [graph EXCEPT !.sources = MapSet(@, id, id), !.gains = MapSet(@, id, One)]

\* AudioGraph.addTrack(id, element): the maps after the call (unchanged when
\* the id is wired already, and when createMediaElementSource throws).
addTrack(graph, id, element) ==
    IF id \in DOMAIN graph.sources \/ CreateSourceThrows(element) THEN graph
    ELSE [sources |-> MapSet(graph.sources, id, id),
          eqs     |-> MapSet(graph.eqs, id, [low |-> 0, mid |-> 0, high |-> 0]),
          pans    |-> MapSet(graph.pans, id, 0),
          gains   |-> MapSet(graph.gains, id, One)]

\* A gain that is full for a solo track, whatever its volume.
TrackGainSoloFull(params) ==
    IF params.isMuted THEN Zero ELSE IF params.isSolo THEN One ELSE Ratio(params.volume, 100)

\* params.isMuted ? 0 : (params.volume / 100)
TrackGain(params) == IF params.isMuted THEN Zero ELSE Ratio(params.volume, 100)

\* AudioGraph.updateTrack(id, params)
updateTrack(graph, id, params) ==
    [graph EXCEPT
        !.eqs   = IF id \in DOMAIN @ THEN MapSet(@, id, params.eq) ELSE @,
        !.pans  = IF id \in DOMAIN @ THEN MapSet(@, id, params.pan) ELSE @,
        !.gains = IF id \in DOMAIN @ THEN MapSet(@, id, TrackGain(params)) ELSE @]

\* AudioGraph.removeTrack(id)
removeTrack(graph, id) ==
    [sources |-> MapDelete(graph.sources, id),
     gains   |-> MapDelete(graph.gains, id),
     eqs     |-> MapDelete(graph.eqs, id),
     pans    |-> MapDelete(graph.pans, id)]

\* The ref callbacks of the audio elements: with the studio shown, a track
\* whose id has no element yet gets the one just rendered.
RenderedRefs(refs, tracks, shown) ==
    IF ~shown THEN refs
    ELSE [k \in DOMAIN refs \cup {tracks[i].id : i \in 1..Len(tracks)} |->
             IF k \in DOMAIN refs THEN refs[k] ELSE NewElement]

\* The effect that syncs the graph with the tracks from the i-th track on:
\* addTrack and updateTrack for every track that has an element; an addTrack
\* that throws ends the effect.
RECURSIVE SyncFrom(_, _, _, _)
SyncFrom(graph, refs, tracks, i) ==
    IF i > Len(tracks) THEN [graph |-> graph, refs |-> refs, threw |-> FALSE]
    ELSE LET track == tracks[i]
         IN  IF track.id \notin DOMAIN refs THEN SyncFrom(graph, refs, tracks, i + 1)
             ELSE IF track.id \notin DOMAIN graph.sources /\ CreateSourceThrows(refs[track.id])
             THEN [graph |-> graph, refs |-> refs, threw |-> TRUE]
             ELSE LET added == addTrack(graph, track.id, refs[track.id])
                  IN  SyncFrom(updateTrack(added, track.id, track),
                               MapSet(refs, track.id, [connected |-> TRUE]), tracks, i + 1)

\* A commit with the given graph, tracks and workspace: the elements are
\* rendered, then the sync effect runs when there is a graph.
Committed(graph, tracks, shown) ==
    LET refs == RenderedRefs(audioStudioRefs, tracks, shown)
    IN  IF graph = NoGraph THEN [graph |-> graph, refs |-> refs, threw |-> FALSE]
        ELSE SyncFrom(graph, refs, tracks, 1)

\* The studio variables after such a commit, and the note of the handler: an
\* error thrown in the effect takes the application down.
StudioCommit(name, arg, graph, tracks, shown) ==
    LET done == Committed(graph, tracks, shown)
    IN  /\ audioGraph' = done.graph
        /\ audioStudioRefs' = done.refs
        /\ isAudioWorkspace' = shown
        /\ Note(IF done.threw THEN "crash" ELSE name, arg, NoTracks, EndRun)

Crashed == lastOp.name = "crash"

\* What no handler of the audio studio changes.
StudioFrame ==
    /\ noPush
    /\ UNCHANGED << videoPool, videoTracks, timelineAudioTracks, selectedClipId, gallery,
                    currentVideoTime, isVideoPlaying, videoEditTool, isMagnetEnabled,
                    timelineScale >>
    /\ UNCHANGED recVars
    /\ UNCHANGED aiVars
    /\ UNCHANGED dragVars

\* setActiveWorkspace: to the audio studio (audio) or to another workspace
\* than the one shown. The cleanup of the engine effect sees the workspace
\* of the render it was made in, so it closes the graph only on the way out
\* of a workspace that is not the studio.
setActiveWorkspace(audio) ==
    /\ Mounted
    /\ ~isRecorderMode
    /\ ~(audio /\ isAudioWorkspace)
    /\ LET cleaned == IF ~isAudioWorkspace /\ audioGraph # NoGraph THEN NoGraph ELSE audioGraph
           engine  == IF audio /\ cleaned = NoGraph THEN NewAudioGraph ELSE cleaned
       IN  StudioCommit("workspace", [audio |-> audio], engine, audioStudioTracks, audio)
    /\ UNCHANGED << audioStudioTracks, now >>
    /\ StudioFrame

\* handleAudioStudioUpload with a file chosen
handleAudioStudioUpload ==
    /\ Mounted
    /\ isAudioWorkspace
    /\ audioStudioTracks' = Append(audioStudioTracks, StudioTrack(<< now >>, 80, FALSE, FALSE))
    /\ now' = now + 1
    /\ StudioCommit("studio-upload", [id |-> << now >>], audioGraph, audioStudioTracks', TRUE)
    /\ StudioFrame

\* updateAudioTrack(id, updates)
updateAudioTrack(id, updates) ==
    /\ Mounted
    /\ isAudioWorkspace
    /\ audioStudioTracks' =
          [i \in 1..Len(audioStudioTracks) |->
              IF audioStudioTracks[i].id = id THEN Spread(audioStudioTracks[i], updates)
              ELSE audioStudioTracks[i]]
    /\ StudioCommit("studio-update", [id |-> id, updates |-> updates], audioGraph,
                    audioStudioTracks', TRUE)
    /\ UNCHANGED now
    /\ StudioFrame

\* The delete button of a studio track: removeTrack, then the track is
\* filtered out.
removeAudioStudioTrack(id) ==
    /\ Mounted
    /\ isAudioWorkspace
    /\ audioStudioTracks' = SelectSeq(audioStudioTracks, LAMBDA t : t.id # id)
    /\ StudioCommit("studio-remove", [id |-> id],
                    IF audioGraph = NoGraph THEN audioGraph ELSE removeTrack(audioGraph, id),
                    audioStudioTracks', TRUE)
    /\ UNCHANGED now
    /\ StudioFrame

\* A file that JSON.parse rejects.
CorruptProject == [corrupt |-> TRUE]

\* A saved project with all four collections.
FullProject ==
    [gallery |-> << [id |-> "img1"] >>,
     videoTracks |->
        << SavedTrack("v1", << SavedClip(131, "video", 0, 5) >>, FALSE),
           SavedTrack("v2", << >>, FALSE) >>,
     timelineAudioTracks |->
        << SavedTrack("a1", << SavedClip(132, "audio", 0, 3) >>, FALSE) >>,
     audioStudioTracks |-> << StudioTrack(<< 141 >>, 80, FALSE, FALSE) >>]

\* Another saved project, its collections empty.
EmptyProject ==
    [gallery |-> << >>,
     videoTracks |-> << SavedTrack("v1", << >>, FALSE) >>,
     timelineAudioTracks |-> << SavedTrack("a1", << >>, FALSE) >>,
     audioStudioTracks |-> << >>]

\* The text of the full project cut off before its end: the collections can
\* be read in it, and JSON.parse rejects it.
TruncatedProject == Spread(FullProject, CorruptProject)

\* The file whose text is null: JSON.parse accepts it and the read of
\* json.gallery throws.
NullProject == Null

ProjectFiles == { LayeredProject, AudioProject, CorruptProject }

\* A parser that never throws.
ParseThrowsNever(file) == FALSE

\* JSON.parse(e.target.result) throws.
ParseThrows(file) == "corrupt" \in DOMAIN file

\* if (json.field) setField(json.field): the value the collection has after.
LoadedField(json, field, prior) == IF field \in DOMAIN json THEN json[field] ELSE prior

\* handleLoadProject: reader.onload for the chosen file.
handleLoadProject(file) ==
    /\ Mounted
    /\ IF ParseThrows(file) \/ file = Null
       THEN /\ UNCHANGED << gallery, videoTracks, timelineAudioTracks, audioStudioTracks >>
            /\ UNCHANGED studioVars
            /\ Note("load-failed", [file |-> file], NoTracks, EndRun)
       ELSE /\ gallery' = LoadedField(file, "gallery", gallery)
            /\ videoTracks' = LoadedField(file, "videoTracks", videoTracks)
            /\ timelineAudioTracks' = LoadedField(file, "timelineAudioTracks", timelineAudioTracks)
            /\ audioStudioTracks' = LoadedField(file, "audioStudioTracks", audioStudioTracks)
            /\ StudioCommit("load", [file |-> file], audioGraph, audioStudioTracks',
                            isAudioWorkspace)
    /\ noPush
    /\ UNCHANGED << videoPool, selectedClipId, now, currentVideoTime, isVideoPlaying,
                    videoEditTool, isMagnetEnabled, timelineScale >>
    /\ UNCHANGED recVars
    /\ UNCHANGED aiVars
    /\ UNCHANGED dragVars

-----------------------------------------------------------------------------
(* The user's gestures: the handlers with their inputs drawn from small sets.
   A file is imported at most once, and edits stop at a budget. *)

\* The first whole pixel on a clip's box.
LeftPixel(clip) ==
    (clip.startTime * timelineScale + UnitsPerSecond - 1) \div UnitsPerSecond

Edits == pushLog.count - 1
CanPush(budget) == Edits < budget

Imported(file) ==
    \E c \in Range(videoPool) \cup Range(AllClips(videoTracks, timelineAudioTracks)) :
        c.src = file.kind

ImportToPool(files) ==
    \E file \in files : ~Imported(file) /\ handleImportMedia(file, FALSE, 1)

ImportTimelineAudio(files) ==
    \E file \in files, times \in {1, 2} :
        ~Imported(file) /\ handleImportMedia(file, TRUE, times)

TrackDrop(budget, pixels, videoLanes, audioLanes) ==
    /\ CanPush(budget)
    /\ \E i \in 1..Len(videoPool), x \in pixels :
          \/ \E t \in videoLanes \cap DOMAIN videoTracks :
                handleTrackDrop(videoPool[i], videoTracks[t].id, FALSE, x)
          \/ \E t \in audioLanes \cap DOMAIN timelineAudioTracks :
                handleTrackDrop(videoPool[i], timelineAudioTracks[t].id, TRUE, x)

\* The mouse button is up: no drag and no scrub is in progress.
PointerUp == draggingClipId = NoId /\ ~isScrubbing

\* A press on a clip, offset pixels from the left edge of its box.
ClipMouseDown(offsets) ==
    /\ PointerUp
    /\ \E off \in offsets :
          \/ \E t \in 1..Len(videoTracks) : \E j \in 1..Len(videoTracks[t].clips) :
                LET clip == videoTracks[t].clips[j]
                IN  handleClipMouseDown(clip, videoTracks[t].id, FALSE, LeftPixel(clip) + off)
          \/ \E t \in 1..Len(timelineAudioTracks) : \E j \in 1..Len(timelineAudioTracks[t].clips) :
                LET clip == timelineAudioTracks[t].clips[j]
                IN  handleClipMouseDown(clip, timelineAudioTracks[t].id, TRUE, LeftPixel(clip) + off)

\* A press with the move tool: select the clip and begin a drag.
ClipGrab == videoEditTool = "move" /\ ClipMouseDown({0})

\* A press with the razor tool.
ClipRazor(budget, offsets) ==
    videoEditTool = "razor" /\ CanPush(budget) /\ ClipMouseDown(offsets)

DragMove(deltas) ==
    /\ ~isScrubbing
    /\ \E d \in deltas : handleTimelineMouseMove(dragStartX + d)

ScrubMove(pixels) ==
    /\ isScrubbing
    /\ \E x \in pixels : handleTimelineMouseMove(x)

TimelineMouseUp(budget) ==
    /\ draggingClipId = NoId \/ CanPush(budget)
    /\ handleTimelineMouseUp

TimelineMouseDown(pixels) ==
    /\ PointerUp
    /\ \E x \in pixels : handleTimelineMouseDownWrapper(x)

DeleteClip(budget) ==
    /\ selectedClipId = NoId \/ CanPush(budget)
    /\ handleDeleteClip

SplitAtPlayhead(budget) ==
    /\ CanPush(budget)
    /\ handleSplitAtPlayhead

ToggleTrackMute(budget, videoLanes, audioLanes) ==
    /\ CanPush(budget)
    /\ \/ \E t \in videoLanes \cap DOMAIN videoTracks :
             toggleTrackMute(videoTracks[t].id, FALSE)
       \/ \E t \in audioLanes \cap DOMAIN timelineAudioTracks :
             toggleTrackMute(timelineAudioTracks[t].id, TRUE)

\* Undo, in at most so many runs of undos and redos.
VideoUndo(runs) ==
    /\ lastOp.name \in {"undo", "redo"} \/ pushLog.runs < runs
    /\ handleVideoUndo

LoadProject(files) == \E json \in files : handleLoadProject(json)

SetVideoEditTool == \E tool \in {"move", "razor"} : setVideoEditTool(tool)

SetTimelineScale(scales) == \E scale \in scales : setTimelineScale(scale)

-----------------------------------------------------------------------------
(* Undo and redo over edits *)

NextUndo ==
    \/ MountEffect
    \/ ImportToPool(StillFiles)
    \/ TrackDrop(UndoEdits, {104}, {1}, {})
    \/ ToggleTrackMute(UndoEdits, {1}, {})
    \/ ClipGrab
    \/ DragMove({90})
    \/ TimelineMouseUp(UndoEdits)
    \/ DeleteClip(UndoEdits)
    \/ VideoUndo(MaxRuns)
    \/ handleVideoRedo

SpecUndo == Init /\ [][NextUndo]_vars

\* C1: when k undos have been followed by k redos, with no other handler in
\* between, the video tracks and the timeline audio tracks are exactly what
\* they were immediately before the first of the undos.
UndoThenRedoRestores ==
    (~undoRun.over /\ undoRun.undos > 0 /\ undoRun.redos = undoRun.undos)
        => Tracks = undoRun.base

\* The tracks are the snapshot stored at the cursor.
AtCursor(history, index, vt, at) ==
    JSONparse(history[index + 1]) = [videoTracks |-> vt, timelineAudioTracks |-> at]

\* C13: an undo with the cursor at 0, and a redo with the cursor at the
\* tail, change neither cursor, history nor tracks, and they are the only
\* undos and redos that do nothing; any other undo lowers and any other redo
\* raises the cursor by exactly one, keeps the history, and makes both track
\* collections the snapshot stored at the new cursor.
UndoRedoStepCursor ==
    [][ /\ lastOp'.name = "undo-noop" =>
              /\ videoHistoryIndex = 0
              /\ UNCHANGED << videoHistoryIndex, videoHistory, videoTracks, timelineAudioTracks >>
        /\ lastOp'.name = "redo-noop" =>
              /\ videoHistoryIndex = Len(videoHistory) - 1
              /\ UNCHANGED << videoHistoryIndex, videoHistory, videoTracks, timelineAudioTracks >>
        /\ lastOp'.name = "undo" =>
              /\ videoHistoryIndex > 0
              /\ videoHistoryIndex' = videoHistoryIndex - 1
              /\ UNCHANGED videoHistory
              /\ AtCursor(videoHistory, videoHistoryIndex', videoTracks', timelineAudioTracks')
        /\ lastOp'.name = "redo" =>
              /\ videoHistoryIndex < Len(videoHistory) - 1
              /\ videoHistoryIndex' = videoHistoryIndex + 1
              /\ UNCHANGED videoHistory
              /\ AtCursor(videoHistory, videoHistoryIndex', videoTracks', timelineAudioTracks')
      ]_vars

\* A redo has brought back a snapshot that holds a clip, after undos that
\* had gone down to the cursor 0.
UndoRedoStepCursorWitness ==
    /\ lastOp.name = "redo"
    /\ undoRun.undos >= 2
    /\ videoHistoryIndex > 0
    /\ AllClips(videoTracks, timelineAudioTracks) # << >>

\* The last n elements of a sequence (all of it when it is shorter).
LastOf(seq, n) == SubSeq(seq, Max2(1, Len(seq) - n + 1), Len(seq))

\* Handlers that push on every call.
PushingHandlers == {"mount", "drop", "mute", "move", "delete"}

\* C24: a push keeps the snapshots up to the cursor and nothing after it,
\* appends the snapshot of the video tracks and timeline audio tracks it
\* reads (dropping the oldest entry beyond the cap), and leaves the cursor
\* on the new last entry; a redo made right after a pushing handler changes
\* neither cursor, history nor tracks.
PushTruncatesAppendsAndBlocksRedo ==
    [][ /\ pushLog'.count # pushLog.count =>
              LET kept   == SubSeq(videoHistory, 1, videoHistoryIndex + 1)
                  pushed == Append(kept, JSONstringify(videoTracks, timelineAudioTracks))
              IN  /\ videoHistory' = LastOf(pushed, HistoryCap)
                  /\ videoHistoryIndex' = Len(videoHistory') - 1
        /\ lastOp'.name \in PushingHandlers => pushLog'.count = pushLog.count + 1
        /\ (lastOp'.name \in {"redo", "redo-noop"} /\ lastOp'.arg.after \in PushingHandlers) =>
              /\ lastOp'.name = "redo-noop"
              /\ UNCHANGED << videoHistoryIndex, videoHistory, videoTracks, timelineAudioTracks >>
      ]_vars

\* A redo right after an edit that was pushed from below the tail: the push
\* discarded at least one snapshot, and the tracks still hold the edit.
PushTruncatesAppendsAndBlocksRedoWitness ==
    /\ lastOp = [name |-> "redo-noop", arg |-> [after |-> "drop"]]
    /\ pushLog.branches > 0
    /\ videoHistoryIndex >= 1
    /\ AllClips(videoTracks, timelineAudioTracks) # << >>

\* The handlers that are structural mutations: drop-to-track, split (either
\* entry point), delete, mute-toggle and a completed move.
StructuralMutations == {"drop", "split", "razor", "delete", "mute", "move"}

\* C2: a single undo made right after a structural mutation leaves the video
\* tracks and the timeline audio tracks as they were immediately before that
\* mutation.
UndoRestoresPreMutation ==
    (lastOp.name = "undo" /\ lastOp.arg.after \in StructuralMutations)
        => Tracks = preMutation

(* The history cap *)

CapToggleMute ==
    /\ pushLog.count < MaxPushes
    /\ videoHistoryIndex + 1 = Len(videoHistory) \/ pushLog.branches < MaxBranches
    /\ toggleTrackMute("v1", FALSE)

NextCap ==
    \/ MountEffect
    \/ CapToggleMute
    \/ VideoUndo(MaxRuns)
    \/ handleVideoRedo

SpecCap == Init /\ [][NextCap]_vars


\* C3: once mounted, the history holds between 1 and 20 snapshots and the
\* cursor indexes one of them; as long as no push discarded redo entries the
\* history is the 20 most recent of the snapshots pushed, oldest dropped
\* first; an undo shows the snapshot under the cursor and an undo at the
\* oldest retained snapshot goes no further.
HistoryWithinCap ==
    Mounted =>
        /\ Len(videoHistory) \in 1..HistoryCap
        /\ videoHistoryIndex \in 0..(Len(videoHistory) - 1)
        /\ pushLog.linear => videoHistory = LastOf(pushLog.log, HistoryCap)
        /\ lastOp.name = "undo" => Tracks = JSONparse(videoHistory[videoHistoryIndex + 1])
        /\ lastOp.name = "undo-noop" => videoHistoryIndex = 0

\* 25 pushes, then undo repeated until it stops at the oldest of the 20
\* snapshots retained.
HistoryWithinCapWitness ==
    /\ pushLog.count = 25
    /\ Len(pushLog.log) = 25
    /\ Len(videoHistory) = HistoryCap
    /\ videoHistory[1] = pushLog.log[6]
    /\ videoHistoryIndex = 0
    /\ lastOp.name = "undo-noop"

-----------------------------------------------------------------------------
(* Split at the playhead and with the razor *)

NextSplit ==
    \/ MountEffect
    \/ ImportToPool(MovieFiles)
    \/ ImportTimelineAudio(AudioFiles)
    \/ TrackDrop(MaxEdits, {104}, {1}, {})
    \/ SetVideoEditTool
    \/ ClipRazor(MaxEdits, {1, 20, 40})
    \/ ClipGrab
    \/ TimelineMouseUp(MaxEdits)
    \/ TimelineMouseDown({1, 20, 40})
    \/ SplitAtPlayhead(MaxEdits)

SpecSplit == Init /\ [][NextSplit]_vars

\* The handlers that are the two split entry points, accepted or rejected.
SplitOps == {"split", "razor", "split-noop", "razor-noop"}

\* The clips now on the timeline that carry the given id.
ClipsOfId(id) == { c \in Range(AllClips(videoTracks, timelineAudioTracks)) : c.id = id }

\* C4: right after an accepted split, by either entry point, the fragments
\* A (the original id) and B (the new id) both exist, their durations add up
\* to the original duration within 1e-4 s, and A.trimEnd = B.trimStart.
SplitPreservesDuration ==
    lastOp.name \in {"split", "razor"} =>
        LET original == lastOp.arg.clip
            fragsA   == ClipsOfId(original.id)
            fragsB   == ClipsOfId(Append(original.id, lastOp.arg.t))
        IN  /\ fragsA # {}
            /\ fragsB # {}
            /\ \A a \in fragsA, b \in fragsB :
                  /\ Abs(a.duration + b.duration - original.duration) <= SubQuantum
                  /\ a.trimEnd = b.trimStart

\* A video whose duration is no multiple of 1e-4 s has been split with the
\* razor: the durations of the fragments do not add up exactly.
SplitPreservesDurationWitness ==
    /\ lastOp.name = "razor"
    /\ lastOp.arg.clip.duration % SubQuantum # 0
    /\ \E a \in ClipsOfId(lastOp.arg.clip.id),
          b \in ClipsOfId(Append(lastOp.arg.clip.id, lastOp.arg.t)) :
          a.duration + b.duration # lastOp.arg.clip.duration

\* C5: a split, by either entry point, whose relative time is below 0.1 s or
\* that would leave less than 0.1 s changes nothing: the video tracks, the
\* timeline audio tracks, the history and its cursor stay as they were.
RejectedSplitIsNoOp ==
    [][ ( /\ lastOp'.name \in SplitOps
          /\ \/ lastOp'.arg.relativeTime < MinFragment
             \/ lastOp'.arg.clip.duration - lastOp'.arg.relativeTime < MinFragment )
        => UNCHANGED << videoTracks, timelineAudioTracks, videoHistory, videoHistoryIndex >>
      ]_vars

\* A razor press too close to the end of a clip was rejected, after edits
\* that left more than the mount snapshot in the history.
RejectedSplitIsNoOpWitness ==
    /\ lastOp.name = "razor-noop"
    /\ lastOp.arg.relativeTime >= MinFragment
    /\ lastOp.arg.clip.duration - lastOp.arg.relativeTime < MinFragment
    /\ Len(videoHistory) > 1

\* The fields of a clip that a split may change.
SplitFields == {"id", "startTime", "duration", "trimStart", "trimEnd"}

\* The fragment has every other field of the original, with its value.
KeepsOtherFields(fragment, original) ==
    \A f \in DOMAIN original \ SplitFields :
        f \in DOMAIN fragment /\ fragment[f] = original[f]

\* C26: an accepted split, by either entry point, changes one track only:
\* the clip of the split id stays at its position as fragment A with the
\* same id and startTime, fragment B is added at the end of that track with
\* an id no clip had and B.startTime = A.startTime + A.duration, both
\* fragments have every field of the original outside id, startTime,
\* duration, trimStart and trimEnd unchanged, and every other clip, track
\* attribute and track is as before.
SplitReplacesInPlaceAndAppends ==
    [][ lastOp'.name \in {"split", "razor"} =>
          LET before == videoTracks \o timelineAudioTracks
              after  == videoTracks' \o timelineAudioTracks'
              id     == lastOp'.arg.clip.id
          IN  /\ Len(videoTracks') = Len(videoTracks)
              /\ Len(timelineAudioTracks') = Len(timelineAudioTracks)
              /\ \E i \in 1..Len(before) :
                    LET old == before[i].clips
                        new == after[i].clips
                        b   == new[Len(new)]
                    IN  /\ \A k \in 1..Len(before) : k # i => after[k] = before[k]
                        /\ after[i] = [before[i] EXCEPT !.clips = new]
                        /\ Len(new) = Len(old) + 1
                        /\ \E j \in 1..Len(old) : old[j].id = id
                        /\ \A j \in 1..Len(old) :
                              IF old[j].id = id
                              THEN /\ new[j].id = id
                                   /\ new[j].startTime = old[j].startTime
                                   /\ KeepsOtherFields(new[j], old[j])
                                   /\ KeepsOtherFields(b, old[j])
                                   /\ b.startTime = new[j].startTime + new[j].duration
                              ELSE new[j] = old[j]
                        /\ \A c \in Range(FlatClips(before)) : c.id # b.id
      ]_vars

\* A clip that is followed on its track by a clip of another id has been
\* split: it is still first, the other clip is still second, and fragment B
\* is last.
SplitReplacesInPlaceAndAppendsWitness ==
    /\ lastOp.name \in {"split", "razor"}
    /\ \E t \in 1..Len(timelineAudioTracks) :
          LET clips == timelineAudioTracks[t].clips
          IN  /\ Len(clips) >= 3
              /\ clips[1].id = lastOp.arg.clip.id
              /\ clips[2].id # clips[1].id
              /\ clips[Len(clips)].id = Append(clips[1].id, lastOp.arg.t)

\* C30: a press on a clip with the razor tool leaves the selection and the
\* drag state as they were, and either changes no track and no history or
\* splits the clip so that fragment B starts at the pointer's time (within
\* 1e-4 s); a press with the move tool selects the clip, begins a drag of
\* it, and changes no track and no history.
ToolDecidesClipPress ==
    [][ /\ videoEditTool = "razor" =>
              lastOp'.name # "grab"
        /\ videoEditTool = "move" =>
              lastOp'.name \notin {"razor", "razor-noop"}
        /\ lastOp'.name \in {"razor", "razor-noop"} =>
              /\ UNCHANGED << selectedClipId, draggingClipId, isScrubbing, dragStartX,
                              dragOriginalStartTime >>
              /\ lastOp'.name = "razor-noop" =>
                    UNCHANGED << videoTracks, timelineAudioTracks, videoHistory,
                                 videoHistoryIndex >>
              /\ lastOp'.name = "razor" =>
                    \E b \in Range(AllClips(videoTracks', timelineAudioTracks')) :
                        /\ b.id = Append(lastOp'.arg.clip.id, lastOp'.arg.t)
                        /\ Abs(b.startTime - lastOp'.arg.globalTime) <= SubQuantum
                        /\ \A c \in Range(AllClips(videoTracks, timelineAudioTracks)) :
                              c.id # b.id
        /\ lastOp'.name = "grab" =>
              /\ selectedClipId' = lastOp'.arg.id
              /\ draggingClipId' = lastOp'.arg.id
              /\ UNCHANGED << videoTracks, timelineAudioTracks, videoHistory,
                              videoHistoryIndex >>
      ]_vars

\* A clip selected by an earlier press of the move tool has been split by a
\* press of the razor: the selection is still that clip's id, now fragment
\* A, and no drag is in progress.
ToolDecidesClipPressWitness ==
    /\ lastOp.name = "razor"
    /\ videoEditTool = "razor"
    /\ selectedClipId = lastOp.arg.clip.id
    /\ draggingClipId = NoId
    /\ ClipsOfId(Append(lastOp.arg.clip.id, lastOp.arg.t)) # {}

-----------------------------------------------------------------------------
(* Placement: drop to a track, and move with the magnet *)

NextMove ==
    \/ MountEffect
    \/ ImportToPool(PoolFiles)
    \/ TrackDrop(MaxEdits, {15, 200}, {1, 2}, {})
    \/ SetTimelineScale({5, DefaultScale})
    \/ ClipGrab
    \/ DragMove({-90, 10})
    \/ TimelineMouseUp(MaxEdits)

SpecMove == Init /\ [][NextMove]_vars

\* The clips a move compares the dragged clip with.
OtherClips ==
    { c \in Range(AllClips(videoTracks, timelineAudioTracks)) : c.id # draggingClipId }

ClipEnd(c) == c.startTime + c.duration

\* The start and end times of the other clips.
OtherBoundaries == { c.startTime : c \in OtherClips } \cup { ClipEnd(c) : c \in OtherClips }

\* Closer than the snap threshold (15 / scale seconds).
Near(a, b) == Abs(a - b) * timelineScale < SnapPixels * UnitsPerSecond

IsolatedEnd(end, candidate) ==
    /\ ~Near(end, 0)
    /\ \A b \in OtherBoundaries \ {end} : ~Near(b, candidate) /\ ~Near(b, end)

DropSnapsToEnd ==
    ( /\ lastOp.name = "drop"
      /\ ~lastOp.arg.isAudioTrack
      /\ isMagnetEnabled
      /\ lastOp.arg.dropTime = 3 * UnitsPerSecond
      /\ Near(3 * UnitsPerSecond, 5 * UnitsPerSecond)
      /\ \E t \in 1..Len(videoTracks) :
            /\ videoTracks[t].id = lastOp.arg.trackId
            /\ \E a \in Range(videoTracks[t].clips) :
                  /\ a.id # << lastOp.arg.t >>
                  /\ a.startTime = 0
                  /\ a.duration = 5 * UnitsPerSecond )
    => \A b \in ClipsOfId(<< lastOp.arg.t >>) : b.startTime = 5 * UnitsPerSecond

\* C27: a pointer-move of a drag leaves every track with its attributes
\* and the number and order of its clips; a clip of another id is unchanged,
\* and a clip of the dragged id differs from what it was in startTime at
\* most, which is not negative.
MoveChangesOnlyStartTime ==
    [][ lastOp'.name = "drag" =>
          LET before == videoTracks \o timelineAudioTracks
              after  == videoTracks' \o timelineAudioTracks'
          IN  /\ Len(videoTracks') = Len(videoTracks)
              /\ Len(timelineAudioTracks') = Len(timelineAudioTracks)
              /\ \A i \in 1..Len(before) :
                    /\ after[i] = [before[i] EXCEPT !.clips = after[i].clips]
                    /\ Len(after[i].clips) = Len(before[i].clips)
                    /\ \A j \in 1..Len(before[i].clips) :
                          LET old == before[i].clips[j]
                              new == after[i].clips[j]
                          IN  IF old.id = draggingClipId
                              THEN /\ new = [old EXCEPT !.startTime = new.startTime]
                                   /\ new.startTime >= 0
                              ELSE new = old
      ]_vars

\* A drag has moved a clip to a new start time where it overlaps another
\* clip of the same track.
MoveChangesOnlyStartTimeWitness ==
    /\ lastOp.name = "drag"
    /\ preMutation # NoTracks
    /\ Tracks # preMutation
    /\ \E t \in 1..Len(videoTracks) :
          \E moved, other \in Range(videoTracks[t].clips) :
              /\ moved.id = draggingClipId
              /\ other.id # draggingClipId
              /\ moved.startTime < ClipEnd(other)
              /\ other.startTime < ClipEnd(moved)

(* Drag gestures *)

NextDrag ==
    \/ MountEffect
    \/ ImportToPool(StillFiles)
    \/ TrackDrop(MaxEdits, {15, 200}, {1}, {})
    \/ ClipGrab
    \/ DragMove({-90, 100})
    \/ TimelineMouseDown({40})
    \/ ScrubMove({90})
    \/ TimelineMouseUp(UndoEdits)

SpecDrag == Init /\ [][NextDrag]_vars

\* C25: the press that begins a drag and every pointer-move of the drag
\* leave the snapshots and the cursor as they were; the pointer-up that ends
\* the drag pushes exactly one snapshot, that of the tracks as the preview
\* left them, and ends the drag.
DragPushesOnceOnPointerUp ==
    [][ /\ lastOp'.name = "grab" =>
              /\ draggingClipId' # NoId
              /\ UNCHANGED << videoHistory, videoHistoryIndex, videoTracks, timelineAudioTracks >>
        /\ lastOp'.name = "drag" =>
              /\ draggingClipId # NoId
              /\ UNCHANGED << videoHistory, videoHistoryIndex, draggingClipId >>
        /\ (lastOp'.name \in {"move", "mouseup"} /\ draggingClipId # NoId) =>
              /\ draggingClipId' = NoId
              /\ pushLog'.count = pushLog.count + 1
              /\ videoHistoryIndex' = Len(videoHistory') - 1
              /\ AtCursor(videoHistory', videoHistoryIndex', videoTracks, timelineAudioTracks)
              /\ UNCHANGED << videoTracks, timelineAudioTracks >>
      ]_vars

\* A drag has ended on pointer-up after previews that moved the clip: the
\* history holds the mount, the drop and this one push.
DragPushesOnceOnPointerUpWitness ==
    /\ lastOp.name = "move"
    /\ preMutation # NoTracks
    /\ Tracks # preMutation
    /\ pushLog.count = 3
    /\ Len(videoHistory) = 3
    /\ videoHistoryIndex = 2

-----------------------------------------------------------------------------
(* What plays at the playhead *)

NextResolve ==
    \/ MountEffect
    \/ LoadProject(ProjectFiles)
    \/ ToggleTrackMute(MaxEdits, {1, 2}, {1, 2})
    \/ TimelineMouseDown({0, 39, 40, 79, 90, 130})
    \/ ScrubMove({39, 90})
    \/ TimelineMouseUp(MaxEdits)

SpecResolve == Init /\ [][NextResolve]_vars

\* The playhead is inside the clip's interval [startTime, startTime + duration).
Contains(c) == c.startTime <= currentVideoTime /\ currentVideoTime < c.startTime + c.duration

\* C8: the resolver lists the active clips in strictly ascending track
\* index, so at most one per video track, each a clip of the track it is
\* listed for, and none from a muted track.
OneVisibleClipPerTrack ==
    LET visibleClips == getAllActiveClips.visibleClips
    IN  /\ \A i, j \in 1..Len(visibleClips) :
              i < j => visibleClips[i].trackIndex < visibleClips[j].trackIndex
        /\ \A i \in 1..Len(visibleClips) :
              LET idx == visibleClips[i].trackIndex
              IN  /\ idx + 1 \in DOMAIN videoTracks
                  /\ ~videoTracks[idx + 1].isMuted
                  /\ visibleClips[i].clip \in Range(videoTracks[idx + 1].clips)

\* Two overlapping clips of one track both contain the playhead, a muted
\* track has a clip that contains it too, and two tracks are listed.
OneVisibleClipPerTrackWitness ==
    /\ Len(getAllActiveClips.visibleClips) = 2
    /\ \E t \in DOMAIN videoTracks :
          \E c, d \in Range(videoTracks[t].clips) : c # d /\ Contains(c) /\ Contains(d)
    /\ \E t \in DOMAIN videoTracks :
          videoTracks[t].isMuted /\ \E c \in Range(videoTracks[t].clips) : Contains(c)

\* The timeline audio tracks that are not muted and have a clip containing
\* the playhead.
SoundingTracks ==
    { t \in DOMAIN timelineAudioTracks :
        /\ ~timelineAudioTracks[t].isMuted
        /\ \E c \in Range(timelineAudioTracks[t].clips) : Contains(c) }

\* C9: the resolver's audio clip is a clip containing the playhead (no
\* look-ahead) on the first timeline audio track that is not muted and has
\* such a clip, and the first such clip of that track; it is null when
\* there is no such track.
FirstAudioTrackWins ==
    LET active == getAllActiveClips.activeAudioClip
    IN  IF SoundingTracks = {} THEN active = Null
        ELSE LET first == CHOOSE t \in SoundingTracks : \A u \in SoundingTracks : t <= u
                 clips == timelineAudioTracks[first].clips
             IN  /\ getAllActiveClips.activeAudioTrack = timelineAudioTracks[first]
                 /\ \E k \in DOMAIN clips :
                       /\ active = clips[k]
                       /\ Contains(clips[k])
                       /\ \A m \in 1..(k - 1) : ~Contains(clips[m])

\* The first audio track has a clip starting within 0.05 s after the
\* playhead, and the clip heard is the first of two overlapping clips of
\* the second track.
FirstAudioTrackWinsWitness ==
    /\ Len(timelineAudioTracks) = 2
    /\ ~timelineAudioTracks[1].isMuted
    /\ \E c \in Range(timelineAudioTracks[1].clips) :
          currentVideoTime < c.startTime /\ currentVideoTime + LookAhead >= c.startTime
    /\ \E c, d \in Range(timelineAudioTracks[2].clips) : c # d /\ Contains(c) /\ Contains(d)
    /\ getAllActiveClips.activeAudioClip = timelineAudioTracks[2].clips[1]

-----------------------------------------------------------------------------
(* Deleting the selected clip *)

NextDelete ==
    \/ MountEffect
    \/ ImportToPool(StillFiles)
    \/ ImportTimelineAudio(AudioFiles)
    \/ TrackDrop(MaxEdits + 1, {104}, {1, 2}, {})
    \/ ToggleTrackMute(MaxEdits + 1, {2}, {})
    \/ ClipGrab
    \/ TimelineMouseUp(MaxEdits + 1)
    \/ DeleteClip(MaxEdits + 1)

SpecDelete == Init /\ [][NextDelete]_vars

\* A track with its clips taken away: its attributes.
Attributes(track) == [track EXCEPT !.clips = << >>]

\* Every track keeps its attributes and, in their order, exactly its clips
\* of another id than the given one.
OnlyRemoved(before, after, id) ==
    /\ Len(after) = Len(before)
    /\ \A t \in DOMAIN before :
          /\ Attributes(after[t]) = Attributes(before[t])
          /\ LET Other(c) == c.id # id
             IN  after[t].clips = SelectSeq(before[t].clips, Other)

\* C10: a delete with a clip selected leaves no clip of the selected id on
\* the video tracks or the timeline audio tracks, leaves every other clip and
\* every track attribute as it was, and clears the selection; a delete with
\* nothing selected, and only that, changes no track, no selection and no
\* history.
DeleteRemovesSelected ==
    [][ /\ lastOp'.name = "delete" =>
              /\ selectedClipId # NoId
              /\ selectedClipId \notin { c.id : c \in Range(AllClips(videoTracks', timelineAudioTracks')) }
              /\ OnlyRemoved(videoTracks, videoTracks', selectedClipId)
              /\ OnlyRemoved(timelineAudioTracks, timelineAudioTracks', selectedClipId)
              /\ selectedClipId' = NoId
        /\ lastOp'.name = "delete-noop" =>
              /\ selectedClipId = NoId
              /\ UNCHANGED << videoTracks, timelineAudioTracks, selectedClipId,
                              videoHistory, videoHistoryIndex >>
      ]_vars

\* A clip of the second video track has been deleted: its id is gone, the
\* selection is cleared and other clips remain.
DeleteRemovesSelectedWitness ==
    /\ lastOp.name = "delete"
    /\ selectedClipId = NoId
    /\ \E c \in Range(preMutation.videoTracks[2].clips) : c.id = lastOp.arg.id
    /\ lastOp.arg.id \notin ClipIds(videoTracks, timelineAudioTracks)
    /\ AllClips(videoTracks, timelineAudioTracks) # << >>

-----------------------------------------------------------------------------
(* Drop to a track *)

NextDrop ==
    \/ MountEffect
    \/ ImportToPool(PoolFiles)
    \/ TrackDrop(MaxEdits, {-20, 15, 104}, {1, 2}, {1})
    \/ SetTimelineScale({7, DefaultScale})

SpecDrop == Init /\ [][NextDrop]_vars

\* The tracks of the lane a drop went to, and of the other lane.
DropLane(isAudioTrack, vt, at) == IF isAudioTrack THEN at ELSE vt

\* time is the quantized, non-negative time of the pointer x pixels into
\* the clip area: a multiple of 1e-4 s nearest to max(0, x) / scale.
IsDropTime(time, x) ==
    /\ time >= 0
    /\ time % SubQuantum = 0
    /\ 2 * Abs(time * timelineScale - Max2(0, x) * UnitsPerSecond) <= SubQuantum * timelineScale

\* C11: a drop appends to the destination track, and to no other, a copy of
\* a pool clip that differs from it in id and startTime only; the id is on
\* no clip of the timeline or the pool before the drop; the startTime is 0
\* when the destination track had no clip, and otherwise the quantized,
\* non-negative time of the pointer.
DropAppendsToTrack ==
    [][ lastOp'.name = "drop" =>
          LET arg    == lastOp'.arg
              before == DropLane(arg.isAudioTrack, videoTracks, timelineAudioTracks)
              after  == DropLane(arg.isAudioTrack, videoTracks', timelineAudioTracks')
          IN  /\ DropLane(~arg.isAudioTrack, videoTracks', timelineAudioTracks')
                    = DropLane(~arg.isAudioTrack, videoTracks, timelineAudioTracks)
              /\ Len(after) = Len(before)
              /\ \A t \in DOMAIN before :
                    IF before[t].id # arg.trackId THEN after[t] = before[t]
                    ELSE /\ Attributes(after[t]) = Attributes(before[t])
                         /\ Len(after[t].clips) = Len(before[t].clips) + 1
                         /\ SubSeq(after[t].clips, 1, Len(before[t].clips)) = before[t].clips
                         /\ LET new == after[t].clips[Len(after[t].clips)]
                            IN  /\ \E i \in DOMAIN videoPool :
                                      new = [videoPool[i] EXCEPT !.id = new.id,
                                                                 !.startTime = new.startTime]
                                /\ new.id \notin ClipIds(videoTracks, timelineAudioTracks)
                                /\ new.id \notin { c.id : c \in Range(videoPool) }
                                /\ IF before[t].clips = << >> THEN new.startTime = 0
                                   ELSE IsDropTime(new.startTime, arg.x)
      ]_vars

\* A clip dropped on a video track that had one clip is its second clip and
\* starts at a time, away from 0, that needed rounding.
DropAppendsToTrackWitness ==
    /\ lastOp.name = "drop"
    /\ lastOp.arg.x > 0
    /\ (lastOp.arg.x * UnitsPerSecond) % (timelineScale * SubQuantum) # 0
    /\ \E t \in DOMAIN videoTracks :
          /\ videoTracks[t].id = lastOp.arg.trackId
          /\ ~lastOp.arg.isAudioTrack
          /\ Len(videoTracks[t].clips) = 2
          /\ videoTracks[t].clips[2].id = << lastOp.arg.t >>
          /\ videoTracks[t].clips[2].startTime > 0
          /\ videoTracks[t].clips[1].startTime = 0

-----------------------------------------------------------------------------
(* Locked tracks *)

NextLock ==
    \/ MountEffect
    \/ LoadProject({LockedProject})
    \/ ImportToPool(StillFiles)
    \/ TrackDrop(MaxEdits, {104}, {1}, {})
    \/ ClipGrab
    \/ DragMove({90})
    \/ TimelineMouseUp(MaxEdits)
    \/ DeleteClip(MaxEdits)
    \/ SetVideoEditTool
    \/ ClipRazor(MaxEdits, {20})
    \/ TimelineMouseDown({20})
    \/ SplitAtPlayhead(MaxEdits)

SpecLock == Init /\ [][NextLock]_vars

\* The handlers that are mutating edit operations.
EditOps == {"drag", "split", "razor", "delete", "drop"}

\* Every locked track of the lane is still there with the clips it had.
LockedTracksKept(before, after) ==
    \A t \in DOMAIN before :
        before[t].isLocked =>
            /\ t \in DOMAIN after
            /\ after[t].clips = before[t].clips

\* C12: no move, split, delete or drop changes the clips of a track whose
\* lock flag is set.
LockedTrackUnchanged ==
    [][ lastOp'.name \in EditOps =>
          /\ LockedTracksKept(videoTracks, videoTracks')
          /\ LockedTracksKept(timelineAudioTracks, timelineAudioTracks')
      ]_vars

-----------------------------------------------------------------------------
(* Playback to the end of the timeline *)

\* Frames after the previous one by 0, by the cap of a tenth of a second, and
\* by more than the cap.
FrameDeltas == {0, UnitsPerSecond \div 10, UnitsPerSecond \div 4}

Animate == \E deltaTime \in FrameDeltas : animate(deltaTime)

HandleStartCapture == \E granted \in BOOLEAN : handleStartCapture(granted)

\* The timeline and the project controls are hidden in recorder mode.
NextPlay ==
    \/ MountEffect
    \/ (~isRecorderMode /\ LoadProject({AudioProject}))
    \/ (~isRecorderMode /\ TimelineMouseDown({1199, 1239, 1300}))
    \/ TimelineMouseUp(MaxEdits)
    \/ toggleVideoPlay
    \/ Animate
    \/ enterRecorderMode
    \/ exitRecorderMode
    \/ HandleStartCapture
    \/ streamEnded
    \/ handleStartRecording
    \/ handleStopRecording
    \/ recorderOnStop

SpecPlay == Init /\ [][NextPlay]_vars

\* C15: a frame, while playing, whose next time is maxTime or beyond sets the
\* time to exactly maxTime and ends playing; and when the recording session
\* is in the state recording at that frame, the recorder has been told to
\* stop (it is inactive and its stop event is queued).
TickAtEndStops ==
    [][ (lastOp'.name = "tick" /\ lastOp'.arg.nextTime >= maxTime) =>
            /\ isVideoPlaying
            /\ currentVideoTime' = maxTime
            /\ ~isVideoPlaying'
            /\ recordingState = "recording" =>
                  /\ mediaRecorder'.state = "inactive"
                  /\ mediaRecorder'.stopQueued
      ]_vars

\* A frame has passed the end of a timeline that holds clips during a
\* recording: the time is the end, the playback is over and the recorder was
\* stopped by that frame.
TickAtEndStopsWitness ==
    /\ lastOp.name = "tick"
    /\ lastOp.arg.nextTime > maxTime
    /\ maxTime > 60 * UnitsPerSecond
    /\ currentVideoTime = maxTime
    /\ ~isVideoPlaying
    /\ recordingState = "recording"
    /\ mediaRecorder = RecorderStop

\* A tenth of a second, the cap of a frame.
FrameCap == UnitsPerSecond \div 10

\* C28: a frame is run only while playing; short of the end it adds to the
\* time the delta since the previous frame, or a tenth of a second when the
\* delta is longer, and at the end it sets the time to maxTime; no frame
\* raises the time by more than a tenth of a second.
TickAdvancesByCappedDelta ==
    [][ lastOp'.name = "tick" =>
            /\ isVideoPlaying
            /\ currentVideoTime' - currentVideoTime <= FrameCap
            /\ lastOp'.arg.nextTime < maxTime =>
                  /\ currentVideoTime' = currentVideoTime
                        + (IF lastOp'.arg.deltaTime <= FrameCap
                           THEN lastOp'.arg.deltaTime ELSE FrameCap)
                  /\ isVideoPlaying'
      ]_vars

\* A frame that came a quarter of a second after the previous one has
\* advanced the time, short of the end, and playback goes on.
TickAdvancesByCappedDeltaWitness ==
    /\ lastOp.name = "tick"
    /\ lastOp.arg.deltaTime > FrameCap
    /\ lastOp.arg.nextTime < maxTime
    /\ currentVideoTime = lastOp.arg.nextTime
    /\ currentVideoTime >= 2 * FrameCap
    /\ isVideoPlaying

\* The handlers that set the time: a scrub, entering the recorder and the
\* start of a recording.
TimeSets == {"scrub", "recorder-enter", "record"}

\* C29: a pause and the press that starts a scrub leave the play flag
\* cleared; while the flag is cleared no frame runs, the time changes only
\* by a scrub or a reset of the recorder, and the flag is set again only by
\* the play toggle or the start of a recording.
StoppedTimeOnlySet ==
    [][ /\ lastOp'.name = "pause" => (isVideoPlaying /\ ~isVideoPlaying')
        /\ (lastOp'.name = "scrub" /\ ~isScrubbing) => ~isVideoPlaying'
        /\ ~isVideoPlaying =>
              /\ lastOp'.name # "tick"
              /\ currentVideoTime' # currentVideoTime => lastOp'.name \in TimeSets
              /\ isVideoPlaying' => lastOp'.name \in {"play", "record"}
      ]_vars

\* Playback was paused after two frames of a tenth of a second from time 0.
StoppedTimeOnlySetWitness ==
    /\ lastOp.name = "pause"
    /\ ~isVideoPlaying
    /\ currentVideoTime = 2 * FrameCap

-----------------------------------------------------------------------------
(* The extent of the timeline *)

NextExtent ==
    \/ MountEffect
    \/ ImportToPool(StillFiles)
    \/ TrackDrop(MaxEdits, {104, 1300}, {2}, {1})
    \/ ClipGrab
    \/ TimelineMouseUp(MaxEdits)
    \/ DeleteClip(MaxEdits)
    \/ LoadProject({AudioProject})

SpecExtent == Init /\ [][NextExtent]_vars

\* The ends of the clips on the video and timeline audio tracks, and the 60
\* second floor.
EndsAndFloor ==
    { c.startTime + c.duration : c \in Range(AllClips(videoTracks, timelineAudioTracks)) }
        \cup { 60 * UnitsPerSecond }

PaddedExtent ==
    (CHOOSE m \in EndsAndFloor : \A e \in EndsAndFloor : e <= m) + 2 * UnitsPerSecond

\* C16, as stated: in every timeline state, a project with no clips
\* included, maxTime is max(60, the greatest startTime + duration of a clip)
\* + 2.
ExtentIsPaddedMax == maxTime = PaddedExtent

\* C16, amended: with at least one clip on a track maxTime is max(60, the
\* greatest startTime + duration of a clip) + 2; with no clip it is 60.
ExtentIsPaddedMaxOfClips ==
    IF AllClips(videoTracks, timelineAudioTracks) = << >>
    THEN maxTime = 60 * UnitsPerSecond
    ELSE maxTime = PaddedExtent

\* Clips on both sides of the floor: one ends before 60 s, one after, and
\* maxTime is two seconds past the later end.
ExtentIsPaddedMaxOfClipsWitness ==
    /\ \E c \in Range(AllClips(videoTracks, timelineAudioTracks)) :
          c.startTime + c.duration < 60 * UnitsPerSecond
    /\ \E c \in Range(AllClips(videoTracks, timelineAudioTracks)) :
          /\ c.startTime + c.duration > 60 * UnitsPerSecond
          /\ maxTime = c.startTime + c.duration + 2 * UnitsPerSecond

-----------------------------------------------------------------------------
(* The volume the synchronizer sets *)

\* The inspector's volume slider (0 to 100) and its fade-in field.
MixUpdates ==
    { [volume |-> 0], [volume |-> 50], [volume |-> 100], [fadeIn |-> UnitsPerSecond] }

\* A change in the inspector, the mouse button up.
UpdateSelectedClip(updates) ==
    /\ PointerUp
    /\ \E u \in updates : updateSelectedClip(u)

NextMix ==
    \/ MountEffect
    \/ ImportToPool(MovieFiles)
    \/ ImportTimelineAudio(AudioFiles)
    \/ TrackDrop(MaxEdits, {104}, {1}, {})
    \/ ClipGrab
    \/ TimelineMouseUp(MaxEdits)
    \/ UpdateSelectedClip(MixUpdates)
    \/ TimelineMouseDown({10, 30})

SpecMix == Init /\ [][NextMix]_vars

\* clamp01((volume / 100) * fadeFactor)
ScaledFade(clip) ==
    Clamp01(Ratio(clip.volume * FadeFactor(clip).num, 100 * FadeFactor(clip).den))

\* C17: the volume the synchronizer sets on the element of every resolved
\* active clip with playable media is clamp01((volume / 100) * fadeFactor),
\* for every clip volume from 0 to 100; a clip volume of 0 gives an element
\* volume of 0.
SyncedVolumeIsScaledFade ==
    /\ \A e \in Range(getAllActiveClips.visibleClips) :
          e.clip.type = "video" => MediaSync.video[e.clip.id] = ScaledFade(e.clip)
    /\ getAllActiveClips.activeAudioClip # Null =>
          MediaSync.audio = ScaledFade(getAllActiveClips.activeAudioClip)

-----------------------------------------------------------------------------
(* Fades over a clip *)

\* The inspector's fade fields and its curve menu.
FadeUpdates ==
    { [fadeIn |-> UnitsPerSecond], [fadeOut |-> UnitsPerSecond],
      [fadeCurve |-> "linear"], [fadeCurve |-> "buttery"] }

NextFade ==
    \/ MountEffect
    \/ LoadProject({FourSecondProject})
    \/ ClipGrab
    \/ DragMove({20})
    \/ TimelineMouseUp(FadeEdits)
    \/ UpdateSelectedClip(FadeUpdates)
    \/ TimelineMouseDown({50, 60, 70, 74, 100, 110, 130})

SpecFade == Init /\ [][NextFade]_vars

\* The clips of the claim: fadeIn = 1, fadeOut = 1, duration = 4, linear.
LinearFourSecondClips ==
    { c \in Range(AllClips(videoTracks, timelineAudioTracks)) :
        /\ c.fadeIn = UnitsPerSecond
        /\ c.fadeOut = UnitsPerSecond
        /\ c.duration = 4 * UnitsPerSecond
        /\ c.fadeCurve = "linear" }

\* C18: for a clip with fadeIn = 1, fadeOut = 1, duration = 4 and the linear
\* curve, the fade factor is 1/2 half a second after its start and half a
\* second before its end, and 1 from one second after its start to one
\* second before its end.
LinearFadeOfFourSeconds ==
    \A c \in LinearFourSecondClips :
        /\ 2 * (currentVideoTime - c.startTime) = UnitsPerSecond
              => FadeFactor(c) = Ratio(1, 2)
        /\ 2 * (currentVideoTime - c.startTime) = 7 * UnitsPerSecond
              => FadeFactor(c) = Ratio(1, 2)
        /\ (/\ currentVideoTime >= c.startTime + UnitsPerSecond
            /\ currentVideoTime <= c.startTime + 3 * UnitsPerSecond)
              => FadeFactor(c) = One

\* The playhead is half a second into such a clip, which was moved from
\* where the project had it, and the fade factor is 1/2.
LinearFadeOfFourSecondsWitness ==
    \E c \in LinearFourSecondClips :
        /\ c.startTime # 2 * UnitsPerSecond
        /\ 2 * (currentVideoTime - c.startTime) = UnitsPerSecond
        /\ FadeFactor(c) = Ratio(1, 2)

-----------------------------------------------------------------------------
(* The fade curves *)

CurveTypes == {"linear", "smooth", "buttery"}

\* The arguments: the fractions n / d from -1 to 2 with d up to CurveDen, and
\* the two infinities that a division by a fade length of 0 gives.
CurveArguments ==
    { Ratio(n, d) : n \in (0 - CurveDen)..(2 * CurveDen), d \in 1..CurveDen }
        \cup { Ratio(-1, 0), Ratio(1, 0) }

InitCurve ==
    /\ videoPool = << >>
    /\ videoTracks = InitVideoTracks
    /\ timelineAudioTracks = InitTimelineAudioTracks
    /\ videoHistory = << >>
    /\ videoHistoryIndex = -1
    /\ currentVideoTime = 0
    /\ selectedClipId = NoId
    /\ videoEditTool = "move"
    /\ isMagnetEnabled = TRUE
    /\ timelineScale = DefaultScale
    /\ draggingClipId = NoId
    /\ isScrubbing = FALSE
    /\ dragStartX = 0
    /\ dragOriginalStartTime = 0
    /\ isVideoPlaying = FALSE
    /\ isRecorderMode = FALSE
    /\ recordingState = "idle"
    /\ mediaRecorder = NoRecorder
    /\ gallery = << >>
    /\ audioStudioTracks = << >>
    /\ isAudioWorkspace = FALSE
    /\ audioGraph = NoGraph
    /\ audioStudioRefs = EmptyMap
    /\ aiPendingChanges = << >>
    /\ aiRequest = NoRequest
    /\ now = 1
    /\ \E t \in CurveArguments, type \in CurveTypes :
          lastOp = [name |-> "curve-argument", arg |-> [t |-> t, type |-> type]]
    /\ preMutation = NoTracks
    /\ undoRun = NoRun
    /\ pushLog = [linear |-> TRUE, log |-> << >>, count |-> 0, branches |-> 0, runs |-> 0]

\* calculateFadeFactor(t, type) is called and returns.
ApplyCurve ==
    /\ lastOp.name = "curve-argument"
    /\ lastOp' = [name |-> "curve",
                  arg  |-> [t |-> lastOp.arg.t, type |-> lastOp.arg.type,
                            factor |-> calculateFadeFactor(lastOp.arg.t, lastOp.arg.type)]]
    /\ UNCHANGED << videoPool, videoTracks, timelineAudioTracks, videoHistory,
                    videoHistoryIndex, selectedClipId, now, preMutation, undoRun, pushLog >>
    /\ UNCHANGED uiVars
    /\ UNCHANGED dragVars

NextCurve == ApplyCurve

SpecCurve == InitCurve /\ [][NextCurve]_vars

\* C19: each of the three curves gives 0 at t = 0 and 1 at t = 1, a value
\* from 0 to 1 at every t, 0 at every t below 0 and 1 at every t above 1;
\* and the smooth and the buttery curve give 1/2 at t = 1/2.
CurvesStayInUnitRange ==
    lastOp.name = "curve" =>
        LET t      == lastOp.arg.t
            factor == lastOp.arg.factor
        IN  /\ t = Zero => factor = Zero
            /\ t = One => factor = One
            /\ AtMost(Zero, factor) /\ AtMost(factor, One)
            /\ AtMost(t, Zero) => factor = Zero
            /\ AtMost(One, t) => factor = One
            /\ (t = Ratio(1, 2) /\ lastOp.arg.type \in {"smooth", "buttery"})
                  => factor = Ratio(1, 2)

\* The buttery curve has been evaluated at 1/2 and has given 1/2.
CurvesStayInUnitRangeWitness ==
    /\ lastOp.name = "curve"
    /\ lastOp.arg.type = "buttery"
    /\ lastOp.arg.t = Ratio(1, 2)
    /\ lastOp.arg.factor = Ratio(1, 2)

-----------------------------------------------------------------------------
(* The shape of the clips on the tracks *)

\* The timeline audio input used right after the mount.
ImportTimelineAudioFirst(files) == lastOp.name = "mount" /\ ImportTimelineAudio(files)

NextShape ==
    \/ MountEffect
    \/ ImportToPool(MovieFiles)
    \/ ImportTimelineAudioFirst(AudioFiles)
    \/ TrackDrop(MaxEdits, {104}, {1}, {})
    \/ ClipGrab
    \/ DragMove({-90})
    \/ TimelineMouseUp(MaxEdits)
    \/ TimelineMouseDown({20})
    \/ SplitAtPlayhead(MaxEdits)
    \/ DeleteClip(MaxEdits)
    \/ VideoUndo(MaxRuns)
    \/ handleVideoRedo

SpecShape == Init /\ [][NextShape]_vars

\* C20: through import, drop, move, split, delete, undo and redo, every clip
\* on a track has duration > 0, startTime >= 0, trimStart >= 0, trimEnd <=
\* originalDuration and trimStart < trimEnd.
PlacedClipsWellFormed ==
    \A c \in Range(AllClips(videoTracks, timelineAudioTracks)) :
        /\ c.duration > 0
        /\ c.startTime >= 0
        /\ c.trimStart >= 0
        /\ c.trimEnd <= c.originalDuration
        /\ c.trimStart < c.trimEnd

\* A split has left a fragment cut from the inside of a clip: it starts
\* after 0, its trim starts after 0 and ends at the source's length.
PlacedClipsWellFormedWitness ==
    /\ lastOp.name = "split"
    /\ \E c \in Range(AllClips(videoTracks, timelineAudioTracks)) :
          /\ c.trimStart > 0
          /\ c.trimEnd = c.originalDuration
          /\ c.startTime > 0

\* C21: each clip id occurs at most once across the video tracks and the
\* timeline audio tracks together, after any sequence of import, drop,
\* split, delete, undo and redo.
ClipIdsOccurOnce ==
    LET placed == AllClips(videoTracks, timelineAudioTracks)
    IN  \A i, j \in 1..Len(placed) : placed[i].id = placed[j].id => i = j

\* C22: an update of fields of the selected clip first pushes a snapshot of
\* the tracks as they were and then merges the fields into the clip of the
\* selected id, in the collection that holds it.
PropertyUpdatePushesHistory ==
    [][ (lastOp'.name = "update" /\ selectedClipId # NoId) =>
            /\ pushLog'.count = pushLog.count + 1
            /\ videoHistoryIndex' = Len(videoHistory') - 1
            /\ videoHistory'[Len(videoHistory')] = JSONstringify(videoTracks, timelineAudioTracks)
            /\ \A c \in Range(AllClips(videoTracks', timelineAudioTracks')) :
                  c.id = selectedClipId =>
                      \A f \in DOMAIN lastOp'.arg : c[f] = lastOp'.arg[f]
      ]_vars

-----------------------------------------------------------------------------
(* Loading project files *)

\* The files JSON.parse rejects, whole or cut off, and the file that reads null.
MalformedFiles == { CorruptProject, TruncatedProject, NullProject }

NextLoad ==
    \/ MountEffect
    \/ ImportToPool(StillFiles)
    \/ TrackDrop(MaxEdits, {104}, {1, 2}, {})
    \/ ToggleTrackMute(MaxEdits, {1}, {1})
    \/ LoadProject({FullProject, EmptyProject, AudioProject} \cup MalformedFiles)

SpecLoad == Init /\ [][NextLoad]_vars

-----------------------------------------------------------------------------
(* The audio studio *)

\* Files chosen on the audio studio input, over all workspaces shown.
StudioUploads == 1

SetActiveWorkspace == \E audio \in BOOLEAN : setActiveWorkspace(audio)

AudioStudioUpload(uploads) ==
    /\ now <= uploads
    /\ handleAudioStudioUpload

\* The volume slider at some of its positions, and the mute and solo
\* buttons of a track.
UpdateAudioTrack(volumes) ==
    \E i \in 1..Len(audioStudioTracks) :
        LET track == audioStudioTracks[i]
        IN  \/ \E v \in volumes : v # track.volume /\ updateAudioTrack(track.id, [volume |-> v])
            \/ updateAudioTrack(track.id, [isMuted |-> ~track.isMuted])
            \/ updateAudioTrack(track.id, [isSolo |-> ~track.isSolo])

RemoveAudioStudioTrack ==
    \E i \in 1..Len(audioStudioTracks) : removeAudioStudioTrack(audioStudioTracks[i].id)

\* After an error thrown in an effect nothing is mounted any more.
NextStudio ==
    \/ MountEffect
    \/ (~Crashed /\ SetActiveWorkspace)
    \/ (~Crashed /\ AudioStudioUpload(StudioUploads))
    \/ (~Crashed /\ UpdateAudioTrack({0, 50}))
    \/ (~Crashed /\ RemoveAudioStudioTrack)
    \/ (~Crashed /\ LoadProject({FullProject}))

SpecStudio == Init /\ [][NextStudio]_vars

\* The studio tracks that have a gain node in the graph.
WiredTracks ==
    IF audioGraph = NoGraph THEN {}
    ELSE { t \in Range(audioStudioTracks) : t.id \in DOMAIN audioGraph.gains }

WiredIds == IF audioGraph = NoGraph THEN {} ELSE DOMAIN audioGraph.sources

\* C32: the four node maps of the graph have the same keys in every state;
\* addTrack for a wired id, with any element, leaves the graph as it is; and
\* after removeTrack of an id none of the four maps has it, while the other
\* keys stay.
NodeMapsShareKeys ==
    audioGraph # NoGraph =>
        /\ DOMAIN audioGraph.eqs = WiredIds
        /\ DOMAIN audioGraph.pans = WiredIds
        /\ DOMAIN audioGraph.gains = WiredIds
        /\ \A id \in WiredIds :
              /\ addTrack(audioGraph, id, NewElement) = audioGraph
              /\ addTrack(audioGraph, id, [connected |-> TRUE]) = audioGraph
              /\ LET removed == removeTrack(audioGraph, id)
                 IN  /\ DOMAIN removed.sources = WiredIds \ {id}
                     /\ DOMAIN removed.eqs = WiredIds \ {id}
                     /\ DOMAIN removed.pans = WiredIds \ {id}
                     /\ DOMAIN removed.gains = WiredIds \ {id}

\* One of two wired tracks has been removed with its button: the graph has
\* the other id and not the removed one.
NodeMapsShareKeysWitness ==
    /\ lastOp.name = "studio-remove"
    /\ WiredIds # {}
    /\ lastOp.arg.id \notin WiredIds
    /\ lastOp.arg.id \in DOMAIN audioStudioRefs
    /\ audioStudioRefs[lastOp.arg.id].connected

-----------------------------------------------------------------------------
(* The colour assistant *)

\* What analyzeVideoFrameForEditing may resolve to (lines 2188-2229): the
\* parsed JSON of the service, whose numbers range over 0..200 and whose
\* preset is one of the named ones, or only an explanation after an error.
AiResults ==
    { [explanation |-> "error"],
      [brightness |-> 120, contrast |-> 100, saturation |-> 0, filterPreset |-> "none"],
      [saturation |-> 100, filterPreset |-> "warm"] }

\* Inspector edits of the colour fields.
ColourUpdates == { [saturation |-> 0], [filterPreset |-> "vintage"] }

AiAnalyse == PointerUp /\ handleAiVideoAnalysis

AiSettle(results) ==
    \E framed \in BOOLEAN, result \in results : aiAnalysisSettled(framed, result)

ApplyAiSuggestions(budget) ==
    /\ PointerUp
    /\ Len(aiPendingChanges) = 0 \/ selectedClipId = NoId \/ CanPush(budget)
    /\ handleApplyAiSuggestions

ToggleAiChangeSelection ==
    \E index \in 1..Len(aiPendingChanges) : toggleAiChangeSelection(index)

NextAi ==
    \/ MountEffect
    \/ ImportToPool(StillFiles)
    \/ TrackDrop(MaxEdits, {15}, {1}, {})
    \/ ClipGrab
    \/ TimelineMouseUp(MaxEdits)
    \/ UpdateSelectedClip(ColourUpdates)
    \/ AiAnalyse
    \/ AiSettle(AiResults)
    \/ ToggleAiChangeSelection
    \/ ApplyAiSuggestions(UndoEdits)

SpecAi == Init /\ [][NextAi]_vars

\* The keys of the staged changes.
StagedKeys == { aiPendingChanges[i].key : i \in 1..Len(aiPendingChanges) }

\* C33: after a suggestion arrives with a clip selected, the staged changes
\* are exactly the returned colour fields whose value differs from the
\* selected clip's current value.
StagedExactlyDiffering ==
    LET clip   == getSelectedClip(videoTracks, timelineAudioTracks, selectedClipId)
        result == lastOp.arg.result
    IN  (lastOp.name = "ai-result" /\ lastOp.arg.framed /\ clip # Null) =>
            StagedKeys = { key \in AiFields \cap DOMAIN result : result[key] # clip[key] }

-----------------------------------------------------------------------------
(* The selection and the playhead *)

\* C34: the selected clip id is null or the id of a clip present on some
\* video or timeline audio track.
SelectionIsPresent ==
    \/ selectedClipId = NoId
    \/ \E clip \in Range(AllClips(videoTracks, timelineAudioTracks)) : clip.id = selectedClipId

\* C35: the playhead stays within the timeline: 0 <= currentTime <= maxTime.
PlayheadWithinMaxTime ==
    /\ 0 <= currentVideoTime
    /\ currentVideoTime <= maxTime

-----------------------------------------------------------------------------
(* The resolver's look-ahead *)

\* C36: a video-track clip the resolver reports as active, with fadeIn = 0
\* and fadeOut = 0, has fade factor 1, the look-ahead window before its
\* startTime included.
UnfadedActiveClipAtFull ==
    \A v \in Range(getAllActiveClips.visibleClips) :
        (v.clip.fadeIn = 0 /\ v.clip.fadeOut = 0) => FadeFactor(v.clip) = One

\* Clips dropped on one video track in either order, and the playhead
\* scrubbed to just before the later clip's start.
NextOrder ==
    \/ MountEffect
    \/ ImportToPool(StillFiles)
    \/ TrackDrop(UndoEdits, {60, 160}, {1}, {})
    \/ ToggleTrackMute(UndoEdits, {1}, {})
    \/ TimelineMouseDown({100, 159, 160})
    \/ ScrubMove({159})
    \/ TimelineMouseUp(UndoEdits)

SpecOrder == Init /\ [][NextOrder]_vars

\* A clip's interval [startTime, startTime + duration) contains the playhead.
ContainsPlayhead(clip) ==
    /\ clip.startTime <= currentVideoTime
    /\ currentVideoTime < clip.startTime + clip.duration

\* C37: on a non-muted video track with a clip whose interval contains
\* currentTime, the clip the resolver selects contains currentTime: a clip
\* matched only through the look-ahead never wins over one that is playing.
PlayingClipPreferred ==
    \A t \in 1..Len(videoTracks) :
        (/\ ~videoTracks[t].isMuted
         /\ \E clip \in Range(videoTracks[t].clips) : ContainsPlayhead(clip))
        => \E v \in Range(getAllActiveClips.visibleClips) :
              /\ v.trackIndex = t - 1
              /\ ContainsPlayhead(v.clip)

-----------------------------------------------------------------------------
(* A click and a magnetised move *)

\* C38: a press on a clip with the move tool followed by a release with no
\* pointer movement between them leaves the history snapshots and the
\* cursor unchanged.
PlainClickKeepsHistory ==
    [][ (lastOp.name = "grab" /\ lastOp'.name = "move")
            => UNCHANGED << videoHistory, videoHistoryIndex >> ]_vars

\* C39: with the magnet on, the start time a move produces is the candidate
\* itself or a boundary (0, or another clip's start or end) that lies within
\* the snap threshold of the candidate.
MagnetStaysNearCandidate ==
    (lastOp.name = "drag" /\ isMagnetEnabled) =>
        \A moved \in ClipsOfId(draggingClipId) :
            \/ moved.startTime = lastOp.arg.candidate
            \/ /\ moved.startTime \in OtherBoundaries \cup {0}
               /\ Near(moved.startTime, lastOp.arg.candidate)

=============================================================================
